---- MODULE Spec2Model ----
(***************************************************************************)
(* The JSON collection store of roman628/tiktok_scraper: the streaming     *)
(* appender (memory_efficient_append.py), the lock-file appender of        *)
(* tiktok_scraper.py, the deduplicators (remove_duplicates.py,             *)
(* robust_master_downloader.py) and the repairer (fix_json.py).            *)
(*                                                                         *)
(* Text is a sequence of one-character strings.  A file is a record        *)
(* [exists, text].  JSON values are tagged records: JStr, JObj, JArr, ...  *)
(***************************************************************************)
EXTENDS Integers, Sequences, FiniteSets, TLC

VARIABLES
    \* ---- memory_efficient_append.py: one call of the appender at a time
    store,          \* the file at master_path
    temp,           \* the file at temp_path (mkstemp)
    pc,             \* position of the appending process
    batch,          \* metadata_list of the current (or last) call
    rpos,           \* characters of original_file read so far
    buffer, in_string, escape_next, bracket_depth,   \* locals of the streaming loop
    calls,          \* number of calls made
    store0,         \* the store file as it was when the current (last) call began
    origin,         \* the store file the run started from
    haltedAt,       \* pc at which the process was killed or raised ("" if it did not)
    \* ---- tiktok_scraper.py: worker processes appending under the .lock file
    master,         \* the file at master_file_path
    lockFile,       \* whether <master_file_path>.lock exists
    wpc,            \* position of each worker process
    wdata,          \* master_data of each worker
    wrote,          \* whether the worker's json.dump of line 761 completed
    wseen,          \* the store file as the worker's json.load of line 748 found it
    \* ---- remove_duplicates.py, robust_master_downloader.py: the deduplicators
    dinput,         \* data, the list handed to the deduplicator
    doutput,        \* unique_entries, the list it produced
    dstage,         \* "input", or the function that produced doutput
    \* ---- fix_json.py: the repairer
    fixInput,       \* the file at input_file
    fixBackup,      \* the file at backup_file
    fixOutput,      \* the file at output_file, when one is named
    objects,        \* what extract_json_objects returned
    warnings,       \* number of "Failed to parse object" messages printed
    fixpc,          \* position in fix_json_file, or how it returned
    fixList,        \* the records whose dump the store text was cut from
    fixCut,         \* number of characters of that dump the store holds
    fixStyle,       \* how the records were written: "indent" or "lines"
    fixTail,        \* the records written whole behind the cut
    \* ---- robust_master_downloader.py: the driver, a run and its restart
    masterJson,     \* the file at self.master_file
    urlsFile,       \* the urls of the source file, in order
    run,            \* "first" or "restart"
    dpc,            \* position of the driver
    urlList,        \* urls, the list process_urls was given
    loopIndex,      \* i, the loop index of process_urls
    processed_urls, cache,      \* self.processed_urls, self._cached_file_urls
    successful_count, failed_count, skipped_count, failed_urls,
    shutdown_requested,
    ms_token,       \* whether a token is there
    metadata,       \* the metadata of the item in flight (<<>> when there is none)
    comments,       \* the comments extracted so far for the item in flight
    fetched,        \* the urls handed to download_tiktok_video in this run
    appended,       \* the urls and records handed to append_batch_to_master_json in this run
    handled,        \* number of source urls that got their outcome in this run
    started,        \* number of items process_urls started in this run
    startedAtSignal,    \* started when the shutdown flag was raised (-1 before)
    progressSaved,  \* whether the final save_progress of this run was done
    prev,           \* how the first run went (written urls, index it stopped at)
    force_redownload,   \* args.force_redownload
    progressFailed, \* the failed_urls array of the progress file ({} while there is no file)
    failedFetches,  \* the urls whose download failed in this run
    cleanedUp,      \* whether cleanup_api_session was called at the end of this run
    \* ---- the in-place rewrites: fix_json_file, remove_duplicates, auto_clean_master_json
    rwOp,           \* the function that rewrites the store in place
    rwpc,           \* its position
    rwStore,        \* the file at the store's path
    rwBackup,       \* the file at backup_file
    rwData,         \* the list it is going to write
    rwOrigin,       \* the store file as the rewrite found it
    \* ---- the drivers of tiktok_scraper.py and the '-' marker of the url file
    mkMode,         \* which driver runs, process_urls_sequential or process_urls_multi
    mkpc,           \* position of the driver's loop
    mkIndex,        \* the url the loop is at
    mkFlag,         \* shutdown_requested of each process (0 is the driver, the others are workers)
    mkWpc,          \* position of each worker process
    mkResult,       \* what download_single_video returned for each url
    mkMarked,       \* the urls that carry the '-' marker in the url file
    mkAttempted     \* the urls whose download got past the flag check of line 614

appendVars == <<store, temp, pc, batch, rpos, buffer, in_string, escape_next,
                bracket_depth, calls, store0, origin, haltedAt>>

lockVars == <<master, lockFile, wpc, wdata, wrote, wseen>>

dedupVars == <<dinput, doutput, dstage>>

fixVars == <<fixInput, fixBackup, fixOutput, objects, warnings, fixpc, fixList, fixCut,
             fixStyle, fixTail>>

driverState == <<urlList, loopIndex, processed_urls, cache, successful_count, failed_count,
                 skipped_count, failed_urls, metadata, comments>>
driverGhost == <<fetched, appended, handled, started, startedAtSignal, progressSaved, prev>>
driverRest == <<force_redownload, progressFailed, failedFetches, cleanedUp>>
driverVars == <<masterJson, urlsFile, run, dpc, shutdown_requested, ms_token,
                driverState, driverGhost, driverRest>>

rewriteVars == <<rwOp, rwpc, rwStore, rwBackup, rwData, rwOrigin>>

markVars == <<mkMode, mkpc, mkIndex, mkFlag, mkWpc, mkResult, mkMarked, mkAttempted>>

vars == <<appendVars, lockVars, dedupVars, fixVars, driverVars, rewriteVars, markVars>>

\* what the steps of the streaming appender leave alone
outsideAppend == <<lockVars, dedupVars, fixVars, driverVars, rewriteVars, markVars>>
\* what the steps of the lock-file appender leave alone
outsideLock == <<appendVars, dedupVars, fixVars, driverVars, rewriteVars, markVars>>
\* what the deduplicators leave alone
outsideDedup == <<appendVars, lockVars, fixVars, driverVars, rewriteVars, markVars>>
\* what the repairer leaves alone
outsideFix == <<appendVars, lockVars, dedupVars, driverVars, rewriteVars, markVars>>
\* what the driver leaves alone
outsideDriver == <<appendVars, lockVars, dedupVars, fixVars, rewriteVars, markVars>>
\* what the steps of the in-place rewrites leave alone
outsideRewrite == <<appendVars, lockVars, dedupVars, fixVars, driverVars, markVars>>
\* what the drivers of tiktok_scraper.py leave alone
outsideMark == <<appendVars, lockVars, dedupVars, fixVars, driverVars, rewriteVars>>

\* ------------------------------------------------------------------ bounds
\* longest store (in records) the runs start from
MaxStore == 2
\* longest batch handed to one append
MaxBatch == 2
\* appends per run
MaxAppends == 2
\* longest list handed to a deduplicator
MaxDedup == 3
\* longest list of records behind a store text handed to the repairer
MaxFix == 2
\* most records written whole behind a truncated one
MaxFixTail == 1
\* longest list of source urls handed to the driver
MaxUrls == 3
\* number of comments a video has
MaxComments == 1
\* worker processes of process_urls_multi running at once
NumWorkers == 2
\* the streaming loop flushes its buffer when it holds more than this many
\* characters: the 10000 of memory_efficient_append.py:78, scaled down so that
\* a one-record store fits in one buffer and the flush boundary falls inside
\* a record of the longer ones
ChunkSize == 30

\* ------------------------------------------------------------------- text
QUOTE == "\""
BSLASH == "\\"
NL == "\n"

\* str.strip() / rstrip() whitespace, which is also JSON's whitespace
IsWs(c) == c \in {" ", "\n", "\t", "\r"}

\* t[i], or "" past the end (file.read(1) returns '' at EOF)
At(t, i) == IF i >= 1 /\ i <= Len(t) THEN t[i] ELSE ""

RECURSIVE RStrip(_)
RStrip(t) ==
    IF Len(t) > 0 /\ IsWs(t[Len(t)]) THEN RStrip(SubSeq(t, 1, Len(t) - 1)) ELSE t

RECURSIVE LStrip(_)
LStrip(t) ==
    IF Len(t) > 0 /\ IsWs(t[1]) THEN LStrip(Tail(t)) ELSE t

Strip(t) == LStrip(RStrip(t))

Spaces(n) == [i \in 1..n |-> " "]

\* ------------------------------------------------------------ JSON values
JStr(s) == [t |-> "s", v |-> s]
JObj(members) == [t |-> "o", v |-> members]     \* members: sequence of <<key, value>>
JArr(items) == [t |-> "a", v |-> items]
JInt(n) == [t |-> "i", v |-> n]                 \* a non-negative integer
JBool(b) == [t |-> "b", v |-> b]
JNull == [t |-> "n", v |-> 0]

Digits == <<"0", "1", "2", "3", "4", "5", "6", "7", "8", "9">>

RECURSIVE IntChars(_)
IntChars(n) == IF n < 10 THEN <<Digits[n + 1]>> ELSE Append(IntChars(n \div 10), Digits[(n % 10) + 1])

\* ------------------------------------------- json.dump(x, indent=2, ensure_ascii=False)
RECURSIVE EscapeChars(_)
EscapeChars(s) ==
    IF s = <<>> THEN <<>>
    ELSE LET c == Head(s) IN
         (CASE c = QUOTE -> <<BSLASH, QUOTE>>
            [] c = BSLASH -> <<BSLASH, BSLASH>>
            [] c = NL -> <<BSLASH, "n">>
            [] OTHER -> <<c>>) \o EscapeChars(Tail(s))

EncodeString(s) == <<QUOTE>> \o EscapeChars(s) \o <<QUOTE>>

RECURSIVE DumpAt(_, _), DumpItems(_, _, _, _)
\* the text of value x whose opening bracket stands at nesting level lvl
DumpAt(x, lvl) ==
    CASE x.t = "s" -> EncodeString(x.v)
      [] x.t = "i" -> IntChars(x.v)
      [] x.t = "b" -> IF x.v THEN <<"t", "r", "u", "e">> ELSE <<"f", "a", "l", "s", "e">>
      [] x.t = "n" -> <<"n", "u", "l", "l">>
      [] x.t = "o" ->
            IF x.v = <<>> THEN <<"{", "}">>
            ELSE <<"{", NL>> \o DumpItems(x.v, 1, lvl + 1, TRUE)
                 \o <<NL>> \o Spaces(2 * lvl) \o <<"}">>
      [] x.t = "a" ->
            IF x.v = <<>> THEN <<"[", "]">>
            ELSE <<"[", NL>> \o DumpItems(x.v, 1, lvl + 1, FALSE)
                 \o <<NL>> \o Spaces(2 * lvl) \o <<"]">>

\* items i.. of an array (or members of an object), each on its own indented line
DumpItems(items, i, lvl, isObj) ==
    IF i > Len(items) THEN <<>>
    ELSE Spaces(2 * lvl)
         \o (IF isObj
             THEN EncodeString(items[i][1]) \o <<":", " ">> \o DumpAt(items[i][2], lvl)
             ELSE DumpAt(items[i], lvl))
         \o (IF i < Len(items) THEN <<",", NL>> ELSE <<>>)
         \o DumpItems(items, i + 1, lvl, isObj)

JsonDump(x) == DumpAt(x, 0)

\* ------------------------------------------------------------- json.loads
\* Strings, non-negative integers, true, false, null, objects and arrays (the
\* values the records of this model hold); anything else at a value position
\* is a JSONDecodeError.
ParseFail == [ok |-> FALSE, pos |-> 0, val |-> JStr(<<>>)]
ParseOk(p, x) == [ok |-> TRUE, pos |-> p, val |-> x]

RECURSIVE SkipWs(_, _)
SkipWs(t, i) == IF i <= Len(t) /\ IsWs(t[i]) THEN SkipWs(t, i + 1) ELSE i

RECURSIVE ParseStr(_, _, _)
\* the string whose opening quote stands just before position i
ParseStr(t, i, acc) ==
    LET c == At(t, i) IN
    CASE c = "" -> ParseFail
      [] c = QUOTE -> ParseOk(i + 1, JStr(acc))
      [] c = BSLASH ->
            LET d == At(t, i + 1) IN
            IF d \in {QUOTE, BSLASH, "/"} THEN ParseStr(t, i + 2, acc \o <<d>>)
            ELSE IF d = "n" THEN ParseStr(t, i + 2, acc \o <<NL>>)
            ELSE ParseFail
      [] c \in {"\n", "\t", "\r"} -> ParseFail     \* control character in a string
      [] OTHER -> ParseStr(t, i + 1, acc \o <<c>>)

IsDigit(c) == \E d \in 1..10 : Digits[d] = c
DigitValue(c) == (CHOOSE d \in 1..10 : Digits[d] = c) - 1

RECURSIVE ParseInt(_, _, _)
\* the digits from position i on, after digits worth acc
ParseInt(t, i, acc) ==
    IF IsDigit(At(t, i)) THEN ParseInt(t, i + 1, 10 * acc + DigitValue(At(t, i)))
    ELSE ParseOk(i, JInt(acc))

\* the literal word at position i
ParseWord(t, i, word, x) ==
    IF i + Len(word) - 1 <= Len(t) /\ SubSeq(t, i, i + Len(word) - 1) = word
    THEN ParseOk(i + Len(word), x) ELSE ParseFail

RECURSIVE ParseValue(_, _), ParseElems(_, _, _), ParseMembers(_, _, _)
ParseValue(t, i) ==
    LET c == At(t, i) IN
    CASE c = QUOTE -> ParseStr(t, i + 1, <<>>)
      [] IsDigit(c) ->
            IF c = "0" /\ IsDigit(At(t, i + 1)) THEN ParseFail ELSE ParseInt(t, i, 0)
      [] c = "t" -> ParseWord(t, i, <<"t", "r", "u", "e">>, JBool(TRUE))
      [] c = "f" -> ParseWord(t, i, <<"f", "a", "l", "s", "e">>, JBool(FALSE))
      [] c = "n" -> ParseWord(t, i, <<"n", "u", "l", "l">>, JNull)
      [] c = "[" ->
            LET j == SkipWs(t, i + 1) IN
            IF At(t, j) = "]" THEN ParseOk(j + 1, JArr(<<>>)) ELSE ParseElems(t, j, <<>>)
      [] c = "{" ->
            LET j == SkipWs(t, i + 1) IN
            IF At(t, j) = "}" THEN ParseOk(j + 1, JObj(<<>>)) ELSE ParseMembers(t, j, <<>>)
      [] OTHER -> ParseFail

ParseElems(t, i, acc) ==
    LET r == ParseValue(t, i) IN
    IF ~r.ok THEN ParseFail
    ELSE LET j == SkipWs(t, r.pos) IN
         CASE At(t, j) = "," -> ParseElems(t, SkipWs(t, j + 1), Append(acc, r.val))
           [] At(t, j) = "]" -> ParseOk(j + 1, JArr(Append(acc, r.val)))
           [] OTHER -> ParseFail

ParseMembers(t, i, acc) ==
    IF At(t, i) # QUOTE THEN ParseFail
    ELSE LET k == ParseStr(t, i + 1, <<>>) IN
         IF ~k.ok THEN ParseFail
         ELSE LET j == SkipWs(t, k.pos) IN
              IF At(t, j) # ":" THEN ParseFail
              ELSE LET r == ParseValue(t, SkipWs(t, j + 1)) IN
                   IF ~r.ok THEN ParseFail
                   ELSE LET m == SkipWs(t, r.pos)
                            acc2 == Append(acc, <<k.val.v, r.val>>) IN
                        CASE At(t, m) = "," -> ParseMembers(t, SkipWs(t, m + 1), acc2)
                          [] At(t, m) = "}" -> ParseOk(m + 1, JObj(acc2))
                          [] OTHER -> ParseFail

\* json.loads(text): ok is FALSE where Python raises JSONDecodeError
JsonLoads(t) ==
    LET r == ParseValue(t, SkipWs(t, 1)) IN
    IF r.ok /\ SkipWs(t, r.pos) = Len(t) + 1 THEN r ELSE ParseFail

\* the text is a syntactically valid JSON array
IsJsonArray(t) == LET r == JsonLoads(t) IN r.ok /\ r.val.t = "a"

\* ---------------------------------------------------------------- files
Absent == [exists |-> FALSE, text |-> <<>>]
File(t) == [exists |-> TRUE, text |-> t]

\* ---------------------------------------------------------------- records
\* url values of the records of the runs: a plain one, and one holding a
\* bracket and a quote (which json.dump escapes)
Urls == {<<"a">>, <<"]", QUOTE>>}
UrlKey == <<"u", "r", "l">>
Rec(u) == JObj(<< <<UrlKey, JStr(u)>> >>)
Records == {Rec(u) : u \in Urls}

RECURSIVE SeqsUpTo(_, _)
\* the sequences over S of length at most n
SeqsUpTo(S, n) ==
    IF n = 0 THEN {<<>>}
    ELSE LET shorter == SeqsUpTo(S, n - 1) IN
         shorter \cup {Append(s, x) : s \in shorter, x \in S}

Batches == SeqsUpTo(Records, MaxBatch) \ {<<>>}


\* =====================================================================
\* append_batch_to_master_json_efficient (memory_efficient_append.py)
\* =====================================================================

\* the stores a run starts from: no file, a pretty-printed array (what
\* json.dump(list, indent=2) wrote), or a pretty-printed single object
InitStores ==
    {Absent}
    \cup {File(JsonDump(JArr(s))) : s \in SeqsUpTo(Records, MaxStore)}
    \cup {File(JsonDump(r)) : r \in Records}

AppendInit ==
    /\ store \in InitStores
    /\ temp = Absent
    /\ pc = "idle"
    /\ batch = <<>>
    /\ rpos = 0
    /\ buffer = <<>>
    /\ in_string = FALSE
    /\ escape_next = FALSE
    /\ bracket_depth = 0
    /\ calls = 0
    /\ store0 = store
    /\ origin = store
    /\ haltedAt = ""

\* the deduplicators are not running
DedupParked ==
    /\ dinput = <<>>
    /\ doutput = <<>>
    /\ dstage = "off"

\* the repairer is not running
FixParked ==
    /\ fixInput = Absent
    /\ fixBackup = Absent
    /\ fixOutput = Absent
    /\ objects = <<>>
    /\ warnings = 0
    /\ fixpc = "off"
    /\ fixList = <<>>
    /\ fixCut = 0
    /\ fixStyle = "off"
    /\ fixTail = <<>>

\* the driver is not running
DriverParked ==
    /\ masterJson = Absent
    /\ urlsFile = <<>>
    /\ run = "off"
    /\ dpc = "off"
    /\ urlList = <<>>
    /\ loopIndex = 0
    /\ processed_urls = {}
    /\ cache = [has |-> FALSE, urls |-> {}]
    /\ successful_count = 0
    /\ failed_count = 0
    /\ skipped_count = 0
    /\ failed_urls = {}
    /\ shutdown_requested = FALSE
    /\ ms_token = FALSE
    /\ metadata = <<>>
    /\ comments = <<>>
    /\ fetched = <<>>
    /\ appended = <<>>
    /\ handled = 0
    /\ started = 0
    /\ startedAtSignal = -1
    /\ progressSaved = FALSE
    /\ prev = <<>>
    /\ force_redownload = FALSE
    /\ progressFailed = {}
    /\ failedFetches = {}
    /\ cleanedUp = FALSE

\* the lock-file appender is not running
LockParked ==
    /\ master = Absent
    /\ lockFile = FALSE
    /\ wpc = <<>>
    /\ wdata = <<>>
    /\ wrote = <<>>
    /\ wseen = <<>>

\* no driver of tiktok_scraper.py is running
MarkParked ==
    /\ mkMode = "off"
    /\ mkpc = "off"
    /\ mkIndex = 0
    /\ mkFlag = <<>>
    /\ mkWpc = <<>>
    /\ mkResult = <<>>
    /\ mkMarked = {}
    /\ mkAttempted = {}

\* no in-place rewrite is running
RewriteParked ==
    /\ rwOp = "off"
    /\ rwpc = "off"
    /\ rwStore = Absent
    /\ rwBackup = Absent
    /\ rwData = <<>>
    /\ rwOrigin = Absent

loopVars == <<rpos, buffer, in_string, escape_next, bracket_depth>>
ghostVars == <<calls, store0, origin, haltedAt>>

\* line 7, 12: the call and its os.path.exists test
Call(b) ==
    /\ pc = "idle"
    /\ calls < MaxAppends
    /\ batch' = b
    /\ calls' = calls + 1
    /\ store0' = store
    /\ pc' = IF store.exists THEN "mkstemp" ELSE "create_open"
    /\ UNCHANGED <<store, temp, loopVars, origin, haltedAt>>
    /\ UNCHANGED outsideAppend

\* line 13: open(master_path, 'w') creates the file, empty
CreateOpen ==
    /\ pc = "create_open"
    /\ store' = File(<<>>)
    /\ pc' = "create_dump"
    /\ UNCHANGED <<temp, batch, loopVars, ghostVars>>
    /\ UNCHANGED outsideAppend

\* line 14: json.dump writes the array through the buffered file object; what
\* has reached the file so far is some prefix of the text
CreateWrite ==
    /\ pc = "create_dump"
    /\ LET full == JsonDump(JArr(batch)) IN
       \E n \in (Len(store.text) + 1)..Len(full) :
           store' = File(SubSeq(full, 1, n))
    /\ UNCHANGED <<temp, pc, batch, loopVars, ghostVars>>
    /\ UNCHANGED outsideAppend

\* lines 13-16: leaving the with block closes the file; return
CreateClose ==
    /\ pc = "create_dump"
    /\ store.text = JsonDump(JArr(batch))
    /\ pc' = "idle"
    /\ UNCHANGED <<store, temp, batch, loopVars, ghostVars>>
    /\ UNCHANGED outsideAppend

\* line 19: tempfile.mkstemp in the store's directory
Mkstemp ==
    /\ pc = "mkstemp"
    /\ temp' = File(<<>>)
    /\ pc' = "first"
    /\ UNCHANGED <<store, batch, loopVars, ghostVars>>
    /\ UNCHANGED outsideAppend

\* lines 25-26, 39-46: read the first character; an array gets '[' written
\* to the temporary file and the loop's locals initialised
ReadFirst ==
    /\ pc = "first"
    /\ IF At(store.text, 1) # "["
       THEN /\ pc' = "convert"
            /\ UNCHANGED <<temp, loopVars>>
       ELSE /\ pc' = "stream"
            /\ temp' = File(temp.text \o <<"[">>)
            /\ rpos' = 1
            /\ buffer' = <<>>
            /\ in_string' = FALSE
            /\ escape_next' = FALSE
            /\ bracket_depth' = 1
    /\ UNCHANGED <<store, batch, ghostVars>>
    /\ UNCHANGED outsideAppend

\* lines 32-35: the new items of the convert branch
RECURSIVE ConvertItems(_, _)
ConvertItems(list, i) ==
    IF i > Len(list) THEN <<>>
    ELSE JsonDump(list[i])
         \o (IF i < Len(list) THEN <<",", NL>> ELSE <<>>)
         \o ConvertItems(list, i + 1)

\* lines 28-36: the file does not start with '[': wrap its whole text
Convert ==
    /\ pc = "convert"
    /\ temp' = File(temp.text \o <<"[">> \o RStrip(store.text) \o <<",", NL>>
                    \o ConvertItems(batch, 1) \o <<NL, "]">>)
    /\ pc' = "move"
    /\ UNCHANGED <<store, batch, loopVars, ghostVars>>
    /\ UNCHANGED outsideAppend

\* lines 66-70: what the end-of-array branch writes for the stripped buffer
EndOfArrayOut(buf) ==
    IF buf # <<>> /\ buf[Len(buf)] # ","
    THEN buf \o (IF Strip(buf) # <<>> THEN <<",">> ELSE <<>>)
    ELSE <<>>

ScanResult(p, buf, ins, esc, depth, out, done) ==
    [pos |-> p, buf |-> buf, ins |-> ins, esc |-> esc, depth |-> depth,
     out |-> out, done |-> done]

RECURSIVE Scan(_, _, _, _, _, _)
\* lines 48-80: the iterations of the while loop up to its next write to the
\* temporary file (out) or its exit (done); the break of line 71 leaves the
\* stripped buffer in place
Scan(text, p, buf, ins, esc, depth) ==
    IF depth <= 0 THEN ScanResult(p, buf, ins, esc, depth, <<>>, TRUE)
    ELSE
    LET char == At(text, p + 1) IN
    IF char = "" THEN ScanResult(p, buf, ins, esc, depth, <<>>, TRUE)
    ELSE
    LET ins2 == IF ~esc /\ char = QUOTE THEN ~ins ELSE ins
        esc2 == ~esc /\ char = BSLASH /\ ins
        depth2 == IF esc \/ ins THEN depth
                  ELSE IF char = "[" THEN depth + 1
                  ELSE IF char = "]" THEN depth - 1
                  ELSE depth
    IN
    IF ~esc /\ ~ins /\ char = "]" /\ depth2 = 0
    THEN LET b == RStrip(buf) IN
         ScanResult(p + 1, b, ins2, esc2, depth2, EndOfArrayOut(b), TRUE)
    ELSE LET b == Append(buf, char) IN
         IF Len(b) > ChunkSize
         THEN ScanResult(p + 1, <<>>, ins2, esc2, depth2, b, FALSE)
         ELSE Scan(text, p + 1, b, ins2, esc2, depth2)

\* Stream, writing each chunk under the store's path instead of the temporary file
StreamInPlace ==
    /\ pc = "stream"
    /\ LET r == Scan(store.text, rpos, buffer, in_string, escape_next, bracket_depth) IN
       /\ store' = File(store.text \o r.out)
       /\ rpos' = r.pos
       /\ buffer' = r.buf
       /\ in_string' = r.ins
       /\ escape_next' = r.esc
       /\ bracket_depth' = r.depth
       /\ pc' = IF r.done THEN "tail" ELSE "stream"
    /\ UNCHANGED <<temp, batch, ghostVars>>
    /\ UNCHANGED outsideAppend

\* lines 48-80: stream the existing items to the temporary file
Stream ==
    /\ pc = "stream"
    /\ LET r == Scan(store.text, rpos, buffer, in_string, escape_next, bracket_depth) IN
       /\ temp' = File(temp.text \o r.out)
       /\ rpos' = r.pos
       /\ buffer' = r.buf
       /\ in_string' = r.ins
       /\ escape_next' = r.esc
       /\ bracket_depth' = r.depth
       /\ pc' = IF r.done THEN "tail" ELSE "stream"
    /\ UNCHANGED <<store, batch, ghostVars>>
    /\ UNCHANGED outsideAppend

\* lines 82-84: write any remaining buffer
WriteRemaining ==
    /\ pc = "tail"
    /\ temp' = File(temp.text \o buffer)
    /\ pc' = "items"
    /\ UNCHANGED <<store, batch, loopVars, ghostVars>>
    /\ UNCHANGED outsideAppend

\* lines 88-92: the new items, each after two spaces
RECURSIVE ItemsText(_, _)
ItemsText(list, i) ==
    IF i > Len(list) THEN <<>>
    ELSE <<" ", " ">> \o JsonDump(list[i])
         \o (IF i < Len(list) THEN <<",", NL>> ELSE <<>>)
         \o ItemsText(list, i + 1)

\* lines 86-94: newline, the new items, the closing bracket
WriteItems ==
    /\ pc = "items"
    /\ temp' = File(temp.text \o <<NL>> \o ItemsText(batch, 1) \o <<NL, "]">>)
    /\ pc' = "move"
    /\ UNCHANGED <<store, batch, loopVars, ghostVars>>
    /\ UNCHANGED outsideAppend

\* line 97: shutil.move(temp_path, master_path), a rename within one directory
Move ==
    /\ pc = "move"
    /\ store' = File(temp.text)
    /\ temp' = Absent
    /\ pc' = "idle"
    /\ UNCHANGED <<batch, loopVars, ghostVars>>
    /\ UNCHANGED outsideAppend

\* positions inside the try block of lines 21-97
TryPcs == {"first", "convert", "stream", "tail", "items", "move"}
\* positions of a call in progress
RunningPcs == TryPcs \cup {"create_open", "create_dump", "mkstemp"}

\* Except without the os.unlink of line 103
ExceptNoUnlink ==
    /\ pc \in TryPcs
    /\ pc' = "raised"
    /\ haltedAt' = pc
    /\ UNCHANGED <<store, temp, batch, loopVars, calls, store0, origin>>
    /\ UNCHANGED outsideAppend

\* lines 100-104: a step of the try block raises; the handler unlinks the
\* temporary file and re-raises
Except ==
    /\ pc \in TryPcs
    /\ temp' = IF temp.exists THEN Absent ELSE temp
    /\ pc' = "raised"
    /\ haltedAt' = pc
    /\ UNCHANGED <<store, batch, loopVars, calls, store0, origin>>
    /\ UNCHANGED outsideAppend

\* lines 13-14, 19: a step outside the try block raises; nothing handles it
Raise ==
    /\ pc \in RunningPcs \ TryPcs
    /\ pc' = "raised"
    /\ haltedAt' = pc
    /\ UNCHANGED <<store, temp, batch, loopVars, calls, store0, origin>>
    /\ UNCHANGED outsideAppend

\* the process is killed: the files stay as they are
Kill ==
    /\ pc \in RunningPcs
    /\ pc' = "killed"
    /\ haltedAt' = pc
    /\ UNCHANGED <<store, temp, batch, loopVars, calls, store0, origin>>
    /\ UNCHANGED outsideAppend

AppendNext ==
    \/ \E b \in Batches : Call(b)
    \/ CreateOpen
    \/ CreateWrite
    \/ CreateClose
    \/ Mkstemp
    \/ ReadFirst
    \/ Convert
    \/ Stream
    \/ WriteRemaining
    \/ WriteItems
    \/ Move
    \/ Except
    \/ Raise
    \/ Kill

RECURSIVE StreamFrom(_, _, _, _, _, _)
\* lines 48-84: everything the loop and the write of the remaining buffer
\* put into the temporary file behind the '['
StreamFrom(text, p, buf, ins, esc, depth) ==
    LET r == Scan(text, p, buf, ins, esc, depth) IN
    IF r.done THEN r.out \o r.buf
    ELSE r.out \o StreamFrom(text, r.pos, r.buf, r.ins, r.esc, r.depth)

\* the store file after a call that ran to its end
AppendedFile(file, b) ==
    IF ~file.exists THEN File(JsonDump(JArr(b)))
    ELSE IF At(file.text, 1) # "["
    THEN File(<<"[">> \o RStrip(file.text) \o <<",", NL>> \o ConvertItems(b, 1) \o <<NL, "]">>)
    ELSE File(<<"[">> \o StreamFrom(file.text, 1, <<>>, FALSE, FALSE, 1)
              \o <<NL>> \o ItemsText(b, 1) \o <<NL, "]">>)

\* a run of the streaming appender alone
InitAppendRun == AppendInit /\ LockParked /\ DedupParked /\ FixParked /\ DriverParked /\ RewriteParked /\ MarkParked

SpecAppend == InitAppendRun /\ [][AppendNext]_vars


\* the streaming appender is not running
AppendParked ==
    /\ store = Absent
    /\ temp = Absent
    /\ pc = "off"
    /\ batch = <<>>
    /\ rpos = 0
    /\ buffer = <<>>
    /\ in_string = FALSE
    /\ escape_next = FALSE
    /\ bracket_depth = 0
    /\ calls = 0
    /\ store0 = Absent
    /\ origin = Absent
    /\ haltedAt = ""

\* =====================================================================
\* append_to_master_json under the .lock file, called by the worker
\* processes of process_urls_multi (tiktok_scraper.py)
\* =====================================================================

Workers == 1..NumWorkers
WorkerNames == <<"p", "q", "r", "s", "t">>
\* the url each worker was submitted with (line 896) and the metadata its
\* download returns
WorkerRec(p) == Rec(<<WorkerNames[p]>>)

\* a store text whose last two characters, the line break and the closing
\* bracket, were never written
Unclosed(text) == SubSeq(text, 1, Len(text) - 2)

LockInit ==
    /\ master \in {Absent} \cup {File(JsonDump(JArr(<<r>>))) : r \in Records}
                       \cup {File(Unclosed(JsonDump(JArr(<<r>>)))) : r \in Records}
    /\ lockFile = FALSE
    /\ wpc = [p \in Workers |-> "download"]
    /\ wdata = [p \in Workers |-> <<>>]
    /\ wrote = [p \in Workers |-> FALSE]
    /\ wseen = [p \in Workers |-> Absent]

\* lines 840-842: download_single_video succeeded
DownloadOk(p) ==
    /\ wpc[p] = "download"
    /\ wpc' = [wpc EXCEPT ![p] = "wait"]
    /\ UNCHANGED <<master, lockFile, wdata, wrote, wseen>>
    /\ UNCHANGED outsideLock

\* lines 840-845: the download failed; nothing is appended
DownloadFail(p) ==
    /\ wpc[p] = "download"
    /\ wpc' = [wpc EXCEPT ![p] = "done"]
    /\ UNCHANGED <<master, lockFile, wdata, wrote, wseen>>
    /\ UNCHANGED outsideLock

\* lines 737-738: the wait loop is left when the lock file is not there
LockCheck(p) ==
    /\ wpc[p] = "wait"
    /\ ~lockFile
    /\ wpc' = [wpc EXCEPT ![p] = "touch"]
    /\ UNCHANGED <<master, lockFile, wdata, wrote, wseen>>
    /\ UNCHANGED outsideLock

\* line 741: lock_file.touch()
Touch(p) ==
    /\ wpc[p] = "touch"
    /\ lockFile' = TRUE
    /\ wpc' = [wpc EXCEPT ![p] = "load"]
    /\ UNCHANGED <<master, wdata, wrote, wseen>>
    /\ UNCHANGED outsideLock

\* lines 745-754: master_data as loaded from the file
LoadedData(file) ==
    IF ~file.exists THEN <<>>
    ELSE LET r == JsonLoads(file.text) IN
         IF ~r.ok THEN <<>>
         ELSE IF r.val.t = "a" THEN r.val.v ELSE <<r.val>>

\* lines 745-757: load the existing data and append the new metadata
Load(p) ==
    /\ wpc[p] = "load"
    /\ wdata' = [wdata EXCEPT ![p] = Append(LoadedData(master), WorkerRec(p))]
    /\ wseen' = [wseen EXCEPT ![p] = master]
    /\ wpc' = [wpc EXCEPT ![p] = "open"]
    /\ UNCHANGED <<master, lockFile, wrote>>
    /\ UNCHANGED outsideLock

\* line 760: open(master_path, 'w') truncates the file
OpenWrite(p) ==
    /\ wpc[p] = "open"
    /\ master' = File(<<>>)
    /\ wpc' = [wpc EXCEPT ![p] = "dump"]
    /\ UNCHANGED <<lockFile, wdata, wrote, wseen>>
    /\ UNCHANGED outsideLock

\* text written from offset 0 of a file that holds old
Overlay(old, text) ==
    IF Len(old) > Len(text) THEN text \o SubSeq(old, Len(text) + 1, Len(old)) ELSE text

\* lines 760-761: json.dump and close; the text goes to this process's own
\* file offset, which is 0
Dump(p) ==
    /\ wpc[p] = "dump"
    /\ master' = File(Overlay(master.text, JsonDump(JArr(wdata[p]))))
    /\ wrote' = [wrote EXCEPT ![p] = TRUE]
    /\ wpc' = [wpc EXCEPT ![p] = "unlock"]
    /\ UNCHANGED <<lockFile, wdata, wseen>>
    /\ UNCHANGED outsideLock

\* line 767: the finally block tests lock_file.exists()
UnlockCheck(p) ==
    /\ wpc[p] = "unlock"
    /\ wpc' = [wpc EXCEPT ![p] = IF lockFile THEN "unlink" ELSE "done"]
    /\ UNCHANGED <<master, lockFile, wdata, wrote, wseen>>
    /\ UNCHANGED outsideLock

\* line 768: lock_file.unlink(); FileNotFoundError when it is gone already
Unlink(p) ==
    /\ wpc[p] = "unlink"
    /\ lockFile' = FALSE
    /\ wpc' = [wpc EXCEPT ![p] = IF lockFile THEN "done" ELSE "except"]
    /\ UNCHANGED <<master, wdata, wrote, wseen>>
    /\ UNCHANGED outsideLock

\* lines 772-776 (and 846-847 when the unlink of line 775 raises in turn):
\* the handler removes the lock file if it is there and returns False
ExceptUnlock(p) ==
    /\ wpc[p] = "except"
    /\ lockFile' = FALSE
    /\ wpc' = [wpc EXCEPT ![p] = "done"]
    /\ UNCHANGED <<master, wdata, wrote, wseen>>
    /\ UNCHANGED outsideLock

LockNext ==
    \E p \in Workers :
        \/ DownloadOk(p)
        \/ DownloadFail(p)
        \/ LockCheck(p)
        \/ Touch(p)
        \/ Load(p)
        \/ OpenWrite(p)
        \/ Dump(p)
        \/ UnlockCheck(p)
        \/ Unlink(p)
        \/ ExceptUnlock(p)

\* a run of process_urls_multi's workers alone
InitLockRun == LockInit /\ AppendParked /\ DedupParked /\ FixParked /\ DriverParked /\ RewriteParked /\ MarkParked

SpecLock == InitLockRun /\ [][LockNext]_vars

\* how many worker processes the system kills during a run
MaxCrash == 1

\* the process of worker p is killed (SIGKILL, the out-of-memory killer):
\* no finally block and no handler runs, so whatever it left in the file
\* system stays, the lock file of line 741 included
Crash(p) ==
    /\ wpc[p] \notin {"done", "dead"}
    /\ Cardinality({q \in Workers : wpc[q] = "dead"}) < MaxCrash
    /\ wpc' = [wpc EXCEPT ![p] = "dead"]
    /\ UNCHANGED <<master, lockFile, wdata, wrote, wseen>>
    /\ UNCHANGED outsideLock

\* a worker that is alive keeps running: it does not stay at a position it
\* can leave (the wait loop of lines 737-738 polls every 0.1 s).  Load(p)
\* is enabled exactly at position "load" and leaves it, so its weak
\* fairness is written as the position not being kept for ever
WorkerFair(p) ==
    /\ WF_vars(DownloadOk(p) \/ DownloadFail(p))
    /\ WF_vars(LockCheck(p))
    /\ WF_vars(Touch(p))
    /\ []<>(wpc[p] # "load")
    /\ WF_vars(OpenWrite(p))
    /\ WF_vars(Dump(p))
    /\ WF_vars(UnlockCheck(p))
    /\ WF_vars(Unlink(p))
    /\ WF_vars(ExceptUnlock(p))

CrashNext ==
    \/ LockNext
    \/ \E p \in Workers : Crash(p)

\* the workers of process_urls_multi, one of which may be killed
SpecCrash == InitLockRun /\ [][CrashNext]_vars /\ \A p \in Workers : WorkerFair(p)

\* =====================================================================
\* The deduplicators: remove_duplicates (remove_duplicates.py) and
\* remove_duplicates_from_data (robust_master_downloader.py)
\* =====================================================================

\* the field names the score functions read, as the characters of the key
Key(name) ==
    CASE name = "title" -> <<"t", "i", "t", "l", "e">>
      [] name = "description" -> <<"d", "e", "s", "c", "r", "i", "p", "t", "i", "o", "n">>
      [] name = "url" -> UrlKey
      [] name = "video_id" -> <<"v", "i", "d", "e", "o", "_", "i", "d">>
      [] name = "uploader" -> <<"u", "p", "l", "o", "a", "d", "e", "r">>
      [] name = "upload_date" -> <<"u", "p", "l", "o", "a", "d", "_", "d", "a", "t", "e">>
      [] name = "view_count" -> <<"v", "i", "e", "w", "_", "c", "o", "u", "n", "t">>
      [] name = "like_count" -> <<"l", "i", "k", "e", "_", "c", "o", "u", "n", "t">>
      [] name = "comment_count" -> <<"c", "o", "m", "m", "e", "n", "t", "_", "c", "o", "u", "n", "t">>
      [] name = "duration" -> <<"d", "u", "r", "a", "t", "i", "o", "n">>
      [] name = "width" -> <<"w", "i", "d", "t", "h">>
      [] name = "height" -> <<"h", "e", "i", "g", "h", "t">>
      [] name = "comments_extracted" -> <<"c", "o", "m", "m", "e", "n", "t", "s", "_", "e", "x", "t", "r", "a", "c", "t", "e", "d">>
      [] name = "top_comments" -> <<"t", "o", "p", "_", "c", "o", "m", "m", "e", "n", "t", "s">>
      [] name = "transcription" -> <<"t", "r", "a", "n", "s", "c", "r", "i", "p", "t", "i", "o", "n">>
      [] name = "downloaded_at" -> <<"d", "o", "w", "n", "l", "o", "a", "d", "e", "d", "_", "a", "t">>
      [] name = "subtitle" -> <<"s", "u", "b", "t", "i", "t", "l", "e">>
      [] name = "subtitles" -> <<"s", "u", "b", "t", "i", "t", "l", "e", "s">>
      [] name = "whisper_transcription" -> <<"w", "h", "i", "s", "p", "e", "r", "_", "t", "r", "a", "n", "s", "c", "r", "i", "p", "t", "i", "o", "n">>

\* isinstance(entry, dict)
IsDict(e) == e.t = "o"
\* field in entry
HasKey(e, name) == \E i \in 1..Len(e.v) : e.v[i][1] = Key(name)
\* entry[field]
Get(e, name) == e.v[CHOOSE i \in 1..Len(e.v) : e.v[i][1] = Key(name)][2]
\* entry.get(field, default)
GetOr(e, name, default) == IF HasKey(e, name) THEN Get(e, name) ELSE default

\* Python truth value of a JSON value
Truthy(x) ==
    CASE x.t = "s" -> x.v # <<>>
      [] x.t = "i" -> x.v # 0
      [] x.t = "b" -> x.v
      [] x.t = "n" -> FALSE
      [] x.t = "a" -> x.v # <<>>
      [] x.t = "o" -> x.v # <<>>

Min(a, b) == IF a <= b THEN a ELSE b

BasicFields == {"title", "description", "url", "video_id", "uploader", "upload_date"}
MetadataFields == {"view_count", "like_count", "comment_count", "duration", "width", "height"}

\* the part of the score the two score functions share: basic fields,
\* metadata fields, comments, download info
ScoreCommon(e) ==
    Cardinality({f \in BasicFields : HasKey(e, f) /\ Truthy(Get(e, f))})
    + Cardinality({f \in MetadataFields : HasKey(e, f) /\ Get(e, f) # JNull})
    + (IF GetOr(e, "comments_extracted", JNull) = JBool(TRUE)
       THEN 10 + Min(Len(GetOr(e, "top_comments", JArr(<<>>)).v), 10)
       ELSE 0)
    + (IF Truthy(GetOr(e, "downloaded_at", JNull)) THEN 2 ELSE 0)

\* remove_duplicates.py, get_data_completeness_score
get_data_completeness_score(e) ==
    ScoreCommon(e) + (IF Truthy(GetOr(e, "transcription", JNull)) THEN 5 ELSE 0)

\* min_length of has_transcription_with_min_length
MinLength == 50

UpperLetters == <<"A", "B", "C", "D", "E", "F", "G", "H", "I", "J", "K", "L", "M",
                  "N", "O", "P", "Q", "R", "S", "T", "U", "V", "W", "X", "Y", "Z">>
LowerLetters == <<"a", "b", "c", "d", "e", "f", "g", "h", "i", "j", "k", "l", "m",
                  "n", "o", "p", "q", "r", "s", "t", "u", "v", "w", "x", "y", "z">>
\* str.lower()
Lower(s) ==
    [i \in 1..Len(s) |->
        IF \E k \in 1..26 : UpperLetters[k] = s[i]
        THEN LowerLetters[CHOOSE k \in 1..26 : UpperLetters[k] = s[i]]
        ELSE s[i]]

\* sub in s
Contains(s, sub) ==
    \E i \in 1..(Len(s) - Len(sub) + 1) : SubSeq(s, i, i + Len(sub) - 1) = sub

\* lines 48-50 (and 53-55, 58-60, 63-65): the named field, stripped, is at
\* least min_length long; the fields hold strings
LongText(e, name) ==
    LET text == Strip(GetOr(e, name, JStr(<<>>)).v) IN
    text # <<>> /\ Len(text) >= MinLength

\* line 70: str(value) of a string, a number or a boolean
PyStr(x) ==
    CASE x.t = "s" -> x.v
      [] x.t = "i" -> IntChars(x.v)
      [] x.t = "b" -> IF x.v THEN <<"T", "r", "u", "e">> ELSE <<"F", "a", "l", "s", "e">>

\* robust_master_downloader.py, has_transcription_with_min_length
has_transcription_with_min_length(e) ==
    /\ IsDict(e)
    /\ \/ LongText(e, "transcription")
       \/ LongText(e, "subtitle")
       \/ LongText(e, "subtitles")
       \/ LongText(e, "whisper_transcription")
       \/ \E i \in 1..Len(e.v) :
              /\ Contains(Lower(e.v[i][1]), <<"t", "r", "a", "n", "s", "c", "r", "i", "p", "t">>)
              /\ Truthy(e.v[i][2])
              /\ Strip(PyStr(e.v[i][2])) # <<>>
              /\ Len(Strip(PyStr(e.v[i][2]))) >= MinLength

\* robust_master_downloader.py, get_data_completeness_score
get_data_completeness_score_robust(e) ==
    ScoreCommon(e) + (IF has_transcription_with_min_length(e) THEN 5 ELSE 0)

\* lines 72 / 119: the entry goes into url_entries
InUrlEntries(e) == IsDict(e) /\ HasKey(e, "url")

RECURSIVE UrlsInOrder(_, _)
\* the keys of url_entries in insertion order, after acc
UrlsInOrder(data, acc) ==
    IF data = <<>> THEN acc
    ELSE LET e == Head(data) IN
         IF InUrlEntries(e) /\ ~\E i \in 1..Len(acc) : acc[i] = Get(e, "url")
         THEN UrlsInOrder(Tail(data), Append(acc, Get(e, "url")))
         ELSE UrlsInOrder(Tail(data), acc)

\* url_entries[url]
UrlGroup(data, u) == SelectSeq(data, LAMBDA e : InUrlEntries(e) /\ Get(e, "url") = u)
\* entries_without_url
EntriesWithoutUrl(data) == SelectSeq(data, LAMBDA e : ~InUrlEntries(e))

\* max(entries, key=...) taking the last of the maximal entries
BestEntryLastRd(entries) ==
    entries[CHOOSE i \in 1..Len(entries) :
                \A j \in 1..Len(entries) :
                    /\ get_data_completeness_score(entries[j]) <= get_data_completeness_score(entries[i])
                    /\ j > i => get_data_completeness_score(entries[j]) < get_data_completeness_score(entries[i])]

\* remove_duplicates.py line 103: max(entries, key=get_data_completeness_score),
\* the first of the maximal entries
BestEntryRd(entries) ==
    entries[CHOOSE i \in 1..Len(entries) :
                \A j \in 1..Len(entries) :
                    /\ get_data_completeness_score(entries[j]) <= get_data_completeness_score(entries[i])
                    /\ j < i => get_data_completeness_score(entries[j]) < get_data_completeness_score(entries[i])]

\* robust_master_downloader.py line 142
BestEntryRobust(entries) ==
    entries[CHOOSE i \in 1..Len(entries) :
                \A j \in 1..Len(entries) :
                    /\ get_data_completeness_score_robust(entries[j]) <= get_data_completeness_score_robust(entries[i])
                    /\ j < i => get_data_completeness_score_robust(entries[j]) < get_data_completeness_score_robust(entries[i])]

\* the characters of the model in code point order
CodeOrder == <<"\t", "\n", "\r", " ", QUOTE, ",", "/">> \o Digits \o <<":">> \o UpperLetters
             \o <<"[", BSLASH, "]">> \o LowerLetters \o <<"{", "}">>
Code(c) == CHOOSE i \in 1..Len(CodeOrder) : CodeOrder[i] = c

RECURSIVE StrLeq(_, _)
\* a <= b for Python strings
StrLeq(a, b) ==
    IF a = <<>> THEN TRUE
    ELSE IF b = <<>> THEN FALSE
    ELSE IF Head(a) = Head(b) THEN StrLeq(Tail(a), Tail(b))
    ELSE Code(Head(a)) < Code(Head(b))

\* line 122: the sort key x.get('url', '')
SortKey(e) == GetOr(e, "url", JStr(<<>>)).v

RECURSIVE InsertSorted(_, _)
\* e put behind the entries of the sorted list whose key is not greater
InsertSorted(sorted, e) ==
    IF sorted = <<>> THEN <<e>>
    ELSE IF StrLeq(SortKey(Head(sorted)), SortKey(e))
         THEN <<Head(sorted)>> \o InsertSorted(Tail(sorted), e)
         ELSE <<e>> \o sorted

RECURSIVE SortByUrl(_)
\* list.sort(key=...), a stable sort
SortByUrl(list) ==
    IF list = <<>> THEN <<>>
    ELSE InsertSorted(SortByUrl(SubSeq(list, 1, Len(list) - 1)), list[Len(list)])

\* remove_duplicates.py lines 67-122: unique_entries for data
UniqueEntriesRd(data) ==
    LET urls == UrlsInOrder(data, <<>>)
        kept == [k \in 1..Len(urls) |->
                    LET entries == UrlGroup(data, urls[k]) IN
                    IF Len(entries) = 1 THEN entries[1] ELSE BestEntryRd(entries)]
    IN SortByUrl(kept \o EntriesWithoutUrl(data))

\* robust_master_downloader.py lines 110-152
remove_duplicates_from_data(data) ==
    LET urls == UrlsInOrder(data, <<>>)
        kept == [k \in 1..Len(urls) |->
                    LET entries == UrlGroup(data, urls[k]) IN
                    IF Len(entries) = 1 THEN entries[1] ELSE BestEntryRobust(entries)]
    IN kept \o EntriesWithoutUrl(data)

\* ------------------------------------------------ the records of the runs
Field(name, x) == <<Key(name), x>>
Text(n) == JStr([i \in 1..n |-> "x"])
UrlA == JStr(<<"a">>)
UrlB == JStr(<<"b">>)
NoUrl == JStr(<<>>)

\* url a, score 3 (url, title, view_count 0)
RecA3 == JObj(<<Field("url", UrlA), Field("title", JStr(<<"t">>)), Field("view_count", JInt(0))>>)
\* url a, score 3 again, other fields (url, uploader, like_count; a null width)
RecA3b == JObj(<<Field("uploader", JStr(<<"u">>)), Field("url", UrlA),
                 Field("like_count", JInt(2)), Field("width", JNull)>>)
\* url a, score 7 (url, title, view_count, like_count, duration, downloaded_at)
RecA7 == JObj(<<Field("url", UrlA), Field("title", JStr(<<"t">>)), Field("view_count", JInt(1)),
                Field("like_count", JInt(0)), Field("duration", JInt(9)),
                Field("downloaded_at", JStr(<<"d">>))>>)
\* url b, score 1
RecB1 == JObj(<<Field("url", UrlB)>>)
\* url b with comments: score 1 + 10 + 2
RecBComments == JObj(<<Field("url", UrlB), Field("comments_extracted", JBool(TRUE)),
                       Field("top_comments", JArr(<<JStr(<<"c">>), JStr(<<"d">>)>>))>>)
\* url b with a short transcription: +5 in remove_duplicates.py only
RecBShort == JObj(<<Field("url", UrlB), Field("transcription", JStr(<<"x">>))>>)
\* url b with a long whisper transcription: +5 in robust_master_downloader.py only
RecBWhisper == JObj(<<Field("url", UrlB), Field("whisper_transcription", Text(MinLength))>>)
\* an empty url, score 1
RecEmpty1 == JObj(<<Field("url", NoUrl), Field("title", JStr(<<"t">>))>>)
\* an empty url, score 3
RecEmpty3 == JObj(<<Field("url", NoUrl), Field("title", JStr(<<"u">>)),
                    Field("downloaded_at", JStr(<<"d">>))>>)
\* no url field
RecNoUrl == JObj(<<Field("title", JStr(<<"t">>))>>)

DedupRecords == {RecA3, RecA3b, RecA7, RecB1, RecBComments, RecBShort, RecBWhisper,
                 RecEmpty1, RecEmpty3, RecNoUrl}

DedupInit ==
    /\ dinput \in SeqsUpTo(DedupRecords, MaxDedup)
    /\ doutput = <<>>
    /\ dstage = "input"

\* remove_duplicates.py lines 67-122
RunRemoveDuplicates ==
    /\ dstage = "input"
    /\ doutput' = UniqueEntriesRd(dinput)
    /\ dstage' = "remove_duplicates"
    /\ UNCHANGED dinput
    /\ UNCHANGED outsideDedup

\* robust_master_downloader.py line 231
RunRemoveDuplicatesFromData ==
    /\ dstage = "input"
    /\ doutput' = remove_duplicates_from_data(dinput)
    /\ dstage' = "remove_duplicates_from_data"
    /\ UNCHANGED dinput
    /\ UNCHANGED outsideDedup

DedupNext ==
    \/ RunRemoveDuplicates
    \/ RunRemoveDuplicatesFromData

\* a run of a deduplicator alone
InitDedupRun == DedupInit /\ AppendParked /\ LockParked /\ FixParked /\ DriverParked /\ RewriteParked /\ MarkParked

SpecDedup == InitDedupRun /\ [][DedupNext]_vars

\* =====================================================================
\* The repairer: fix_json.py
\* =====================================================================

\* the position of the k-th line break of t; 0 before the first line and
\* Len(t) + 1 behind the last
LineBreak(t, k) ==
    LET breaks == {i \in 1..Len(t) : t[i] = NL} IN
    IF k = 0 THEN 0
    ELSE IF k > Cardinality(breaks) THEN Len(t) + 1
    ELSE CHOOSE i \in breaks : Cardinality({j \in breaks : j < i}) = k - 1

\* content.split('\n')
SplitLines(t) ==
    [k \in 1..(Cardinality({i \in 1..Len(t) : t[i] = NL}) + 1) |->
        SubSeq(t, LineBreak(t, k - 1) + 1, LineBreak(t, k) - 1)]

\* '\n'.join(lines)
RECURSIVE JoinLines(_)
JoinLines(lines) ==
    IF lines = <<>> THEN <<>>
    ELSE IF Len(lines) = 1 THEN lines[1]
    ELSE lines[1] \o <<NL>> \o JoinLines(Tail(lines))

\* line.count(c)
CountChar(line, c) == Cardinality({i \in 1..Len(line) : line[i] = c})

\* line.count('{') - line.count('}')
BraceDelta(line) == CountChar(line, "{") - CountChar(line, "}")

\* line.strip().startswith('{')
StartsObject(line) == At(Strip(line), 1) = "{"

\* lines 67-69: obj_text without trailing white space and one trailing comma
WithoutTrailingComma(t) ==
    LET r == RStrip(t) IN
    IF r # <<>> /\ r[Len(r)] = "," THEN SubSeq(r, 1, Len(r) - 1) ELSE r

\* the locals of extract_json_objects before the first line
ExtractStart ==
    [objects |-> <<>>, current_object |-> <<>>, brace_count |-> 0,
     in_object |-> FALSE, warnings |-> 0]

\* lines 58-80: the object in current_object is complete
ExtractComplete(st) ==
    LET obj_text == JoinLines(st.current_object)
        first == JsonLoads(obj_text)
        second == JsonLoads(WithoutTrailingComma(obj_text))
    IN
    IF first.ok
    THEN [st EXCEPT !.objects = Append(@, first.val), !.in_object = FALSE,
                    !.current_object = <<>>]
    ELSE IF second.ok
    THEN [st EXCEPT !.objects = Append(@, second.val), !.in_object = FALSE,
                    !.current_object = <<>>]
    ELSE [st EXCEPT !.warnings = @ + 1, !.in_object = FALSE,
                    !.current_object = <<>>, !.brace_count = 0]

\* lines 46-80: the body of the loop on one line
ExtractLine(st, line) ==
    IF StartsObject(line) /\ st.brace_count = 0
    THEN [st EXCEPT !.in_object = TRUE, !.current_object = <<line>>,
                    !.brace_count = BraceDelta(line)]
    ELSE IF st.in_object
    THEN LET next == [st EXCEPT !.current_object = Append(@, line),
                                !.brace_count = @ + BraceDelta(line)]
         IN IF next.brace_count = 0 THEN ExtractComplete(next) ELSE next
    ELSE st

RECURSIVE ExtractLines(_, _)
ExtractLines(st, lines) ==
    IF lines = <<>> THEN st
    ELSE ExtractLines(ExtractLine(st, Head(lines)), Tail(lines))

\* fix_json.py, extract_json_objects: the locals when the loop ends
extract_json_objects(content) == ExtractLines(ExtractStart, SplitLines(content))

\* ------------------------------------------------ the store texts of the runs
\* a record with a closing brace in a string
RecBrace == JObj(<<Field("url", JStr(<<"}">>))>>)
\* a record with an object inside
RecNested == JObj(<<Field("url", UrlB), <<<<"f">>, JObj(<< <<<<"n">>, JInt(1)>> >>)>>>>)

FixRecords == {Rec(<<"a">>), RecNested, RecBrace}

\* a record of two strings, url and title
LineRec(u, title) == JObj(<<Field("url", JStr(u)), Field("title", JStr(title))>>)
Http(n) == <<"h", "t", "t", "p", ":", "/", "/", "x", "/", n>>
LineRecords == {LineRec(Http("1"), <<"a">>), LineRec(Http("2"), <<"b">>)}

RECURSIVE OneLineMembers(_, _)
OneLineMembers(members, i) ==
    IF i > Len(members) THEN <<>>
    ELSE EncodeString(members[i][1]) \o <<":">> \o DumpAt(members[i][2], 0)
         \o (IF i < Len(members) THEN <<",">> ELSE <<>>)
         \o OneLineMembers(members, i + 1)

\* a record of scalars written on one line, without spaces
OneLine(rec) == <<"{">> \o OneLineMembers(rec.v, 1) \o <<"}">>

RECURSIVE LinesItems(_, _)
LinesItems(list, i) ==
    IF i > Len(list) THEN <<>>
    ELSE OneLine(list[i])
         \o (IF i < Len(list) THEN <<",", NL>> ELSE <<>>)
         \o LinesItems(list, i + 1)

\* an array with one record on each line, the first behind the '['
LinesDump(list) == <<"[">> \o LinesItems(list, 1) \o <<"]">>

\* the array of the records as text, in the given style
StyleDump(style, list) ==
    IF style = "lines" THEN LinesDump(list) ELSE JsonDump(JArr(list))

\* the records of tail on lines of their own and the closing bracket
TailText(tail) ==
    IF tail = <<>> THEN <<>>
    ELSE <<NL>> \o DumpItems(tail, 1, 1, FALSE) \o <<NL, "]">>

\* where the last object of the indented dump of list closes and opens
CloseAt(list) == Len(JsonDump(JArr(list))) - 2
OpenAt(list) == CloseAt(list) - Len(DumpAt(list[Len(list)], 1)) + 1

\* the cut falls inside the last object of the indented dump of list
CutInLast(list, cut) == list # <<>> /\ cut >= OpenAt(list) /\ cut < CloseAt(list)

\* the store text: an array of records as text, cut off anywhere; behind
\* a record that was cut off there may be records written whole
FixInit ==
    /\ fixStyle \in {"indent", "lines"}
    /\ fixList \in SeqsUpTo(IF fixStyle = "lines" THEN LineRecords ELSE FixRecords, MaxFix)
    /\ fixCut \in 0..Len(StyleDump(fixStyle, fixList))
    /\ fixTail \in IF fixStyle = "indent" /\ CutInLast(fixList, fixCut)
                   THEN SeqsUpTo(FixRecords, MaxFixTail)
                   ELSE {<<>>}
    /\ fixInput = File(SubSeq(StyleDump(fixStyle, fixList), 1, fixCut) \o TailText(fixTail))
    /\ fixBackup = Absent
    /\ fixOutput = Absent
    /\ objects = <<>>
    /\ warnings = 0
    /\ fixpc = "start"

fixGhost == <<fixList, fixCut, fixStyle, fixTail>>

\* lines 91-96: output_file is None, the input is renamed to the backup
FixRenameToBackup ==
    /\ fixpc = "start"
    /\ fixInput.exists
    /\ fixBackup' = fixInput
    /\ fixInput' = Absent
    /\ fixpc' = "read"
    /\ UNCHANGED <<fixOutput, objects, warnings, fixGhost>>
    /\ UNCHANGED outsideFix

\* line 91: an output_file is named, nothing is renamed
FixToOutput ==
    /\ fixpc = "start"
    /\ fixInput.exists
    /\ fixpc' = "read"
    /\ UNCHANGED <<fixInput, fixBackup, fixOutput, objects, warnings, fixGhost>>
    /\ UNCHANGED outsideFix

\* lines 102, 117: the file that is read
FixSource == IF fixBackup.exists THEN fixBackup ELSE fixInput

\* lines 100-121: json.load; if it fails or gives no list, extract_json_objects
FixLoad ==
    /\ fixpc = "read"
    /\ LET data == JsonLoads(FixSource.text)
           ex == extract_json_objects(FixSource.text)
       IN IF data.ok /\ data.val.t = "a"
          THEN /\ fixpc' = "open_valid"
               /\ UNCHANGED <<objects, warnings>>
          ELSE /\ objects' = ex.objects
               /\ warnings' = ex.warnings
               /\ fixpc' = "open"
    /\ UNCHANGED <<fixInput, fixBackup, fixOutput, fixGhost>>
    /\ UNCHANGED outsideFix

\* lines 109, 130: open(output_file, 'w') creates or empties the file
FixOpen ==
    /\ fixpc \in {"open_valid", "open"}
    /\ IF fixBackup.exists
       THEN fixInput' = File(<<>>) /\ UNCHANGED fixOutput
       ELSE fixOutput' = File(<<>>) /\ UNCHANGED fixInput
    /\ fixpc' = IF fixpc = "open" THEN "dump" ELSE "dump_valid"
    /\ UNCHANGED <<fixBackup, objects, warnings, fixGhost>>
    /\ UNCHANGED outsideFix

\* lines 110-112, 131: json.dump(..., indent=2) and close
FixDump ==
    /\ fixpc \in {"dump_valid", "dump"}
    /\ LET out == IF fixpc = "dump"
                  THEN JsonDump(JArr(objects))
                  ELSE JsonDump(JsonLoads(FixSource.text).val)
       IN IF fixBackup.exists
          THEN fixInput' = File(out) /\ UNCHANGED fixOutput
          ELSE fixOutput' = File(out) /\ UNCHANGED fixInput
    /\ fixpc' = IF fixpc = "dump" THEN "verify" ELSE "valid"
    /\ UNCHANGED <<fixBackup, objects, warnings, fixGhost>>
    /\ UNCHANGED outsideFix

\* lines 134-142: the output is loaded again
FixVerify ==
    /\ fixpc = "verify"
    /\ LET written == IF fixBackup.exists THEN fixInput ELSE fixOutput
       IN fixpc' = IF JsonLoads(written.text).ok THEN "repaired" ELSE "failed"
    /\ UNCHANGED <<fixInput, fixBackup, fixOutput, objects, warnings, fixGhost>>
    /\ UNCHANGED outsideFix

FixNext ==
    \/ FixRenameToBackup
    \/ FixToOutput
    \/ FixLoad
    \/ FixOpen
    \/ FixDump
    \/ FixVerify

\* a run of the repairer alone
InitFixRun == FixInit /\ AppendParked /\ LockParked /\ DedupParked /\ DriverParked /\ RewriteParked /\ MarkParked

SpecFix == InitFixRun /\ [][FixNext]_vars

\* =====================================================================
\* The driver: robust_master_downloader.py
\* =====================================================================

\* the urls of the source file: two plain urls and a short link
UrlShort == <<"s">>
InputUrls == {<<"a">>, <<"b">>, UrlShort}

\* tiktok_scraper.py line 586: the url of the metadata is the webpage_url
\* the extractor reports; for a short link that is the address it leads to
webpage_url(u) == IF u = UrlShort THEN <<"w">> ELSE u

CommentIdKey == <<"c", "o", "m", "m", "e", "n", "t", "_", "i", "d">>
\* lines 586-593: comment_data of the k-th comment
CommentData(k) == JObj(<< <<CommentIdKey, JInt(k)>> >>)
\* the comments of a video, in the order the iterator yields them
AllComments == [k \in 1..MaxComments |-> CommentData(k)]

\* lines 677-697: the metadata with the comment fields set
WithComments(meta, list) ==
    JObj(meta.v \o <<Field("top_comments", JArr(list)),
                     Field("comments_extracted", JBool(list # <<>>))>>)

\* lines 306-329: json.load of the store raises
LoadRaises(file) ==
    file.exists /\ At(file.text, 1) = "[" /\ ~JsonLoads(file.text).ok

\* lines 321-323 and 329-331: the urls of the items that are dicts with a url
ItemUrls(items) ==
    {Get(items[k], "url").v :
        k \in {j \in 1..Len(items) : IsDict(items[j]) /\ HasKey(items[j], "url")}}

\* lines 306-331: the urls load_existing_progress adds from a store it can
\* load
LoadedUrls(file) ==
    IF file.exists /\ At(file.text, 1) = "[" /\ IsJsonArray(file.text)
    THEN ItemUrls(JsonLoads(file.text).val.v)
    ELSE {}

RECURSIVE ItemsBeforeError(_, _, _)
\* the complete items that stand before the place where the parser stops
ItemsBeforeError(t, i, acc) ==
    LET r == ParseValue(t, i) IN
    IF ~r.ok THEN acc
    ELSE LET j == SkipWs(t, r.pos) IN
         IF At(t, j) = "," THEN ItemsBeforeError(t, SkipWs(t, j + 1), Append(acc, r.val))
         ELSE Append(acc, r.val)

\* lines 319-323: the items ijson.items(f, 'item') can have handed over
\* before it raises on a store that does not parse: it parses by buffers,
\* so any number of the leading items, and none where ijson is not installed
StreamedItems(file) ==
    IF file.exists /\ At(file.text, 1) = "["
    THEN ItemsBeforeError(file.text, SkipWs(file.text, 2), <<>>)
    ELSE <<>>

\* fix_json.py, lines 102-131: what is written for the text, data what
\* json.load makes of it
FixedFrom(text, data) ==
    IF data.ok /\ data.val.t = "a"
    THEN File(JsonDump(data.val))
    ELSE File(JsonDump(JArr(extract_json_objects(text).objects)))

\* fix_json.py run on the file in place (fix_master_json, lines 284-300)
FixedFile(file) == FixedFrom(file.text, JsonLoads(file.text))

UrlPattern == <<QUOTE, "u", "r", "l", QUOTE, ":">>

\* the least member of a set of positions, 0 for the empty set
FirstOf(S) == IF S = {} THEN 0 ELSE CHOOSE x \in S : \A y \in S : x <= y

\* the quote that closes the url whose opening quote stands at q
UrlEnd(line, q) == FirstOf({k \in (q + 1)..Len(line) : line[k] = QUOTE})

\* the match with the opening quote expected at q: <<q, e>>, or <<>>
UrlMatchFrom(line, q) ==
    IF q > 0 /\ line[q] = QUOTE /\ UrlEnd(line, q) > q + 1
    THEN <<q, UrlEnd(line, q)>> ELSE <<>>

\* line 522: re.search(r'"url":\s*"([^"]+)"', line) tried at p: behind the
\* pattern and white space a quote at q, one character or more that is no
\* quote, and a quote at e; the answer is <<q, e>>, or <<>> for no match
UrlMatchAt(line, p) ==
    UrlMatchFrom(line, FirstOf({k \in (p + 6)..Len(line) : ~IsWs(line[k])}))

\* the url of the match <<q, e>>
MatchedUrl(line, m) == SubSeq(line, m[1] + 1, m[2] - 1)

\* lines 519-524: the url the regular expression finds in a line: the
\* leftmost match
RegexUrls(line) ==
    LET starts == {p \in 1..(Len(line) - 5) :
                      /\ SubSeq(line, p, p + 5) = UrlPattern
                      /\ UrlMatchAt(line, p) # <<>>}
    IN IF starts = {} THEN {}
       ELSE {MatchedUrl(line, UrlMatchAt(line, FirstOf(starts)))}

\* lines 518-524: the urls found in the lines of the store
LinesUrls(lines) == UNION {RegexUrls(lines[k]) : k \in 1..Len(lines)}

\* lines 507-530: _rebuild_url_cache
RebuiltCache(file) ==
    IF ~file.exists THEN {} ELSE LinesUrls(SplitLines(file.text))

\* is_duplicate without lines 487-488 and 497-498: only a cache that is
\* already there is asked
CachedOnly(url, processed, cached, file) ==
    [dup |-> cached.has /\ url \in cached.urls, processed |-> processed, cache |-> cached]

\* lines 500-505: the answer of is_duplicate from the cache c
FromCache(url, processed, c) ==
    IF url \in c.urls
    THEN [dup |-> TRUE, processed |-> processed \cup {url}, cache |-> c]
    ELSE [dup |-> FALSE, processed |-> processed, cache |-> c]

\* lines 484-505: is_duplicate(url): the answer and what it leaves in
\* processed_urls and the cache
is_duplicate(url, processed, cached, file) ==
    IF url \in processed
    THEN [dup |-> TRUE, processed |-> processed, cache |-> cached]
    ELSE IF cached.has /\ url \in cached.urls
    THEN [dup |-> TRUE, processed |-> processed \cup {url}, cache |-> cached]
    ELSE FromCache(url, processed,
                   IF cached.has THEN cached
                   ELSE [has |-> TRUE, urls |-> RebuiltCache(file)])

\* lines 539-544: one round of filter_urls, r the answer of is_duplicate
FilterStep(st, url, r) ==
    [new_urls |-> IF r.dup THEN st.new_urls ELSE Append(st.new_urls, url),
     duplicate_count |-> IF r.dup THEN st.duplicate_count + 1 ELSE st.duplicate_count,
     processed |-> r.processed,
     cache |-> r.cache]

RECURSIVE FilterFrom(_, _, _)
\* lines 532-549: filter_urls from position k on; st holds new_urls,
\* duplicate_count, processed_urls and the cache
FilterFrom(list, k, st) ==
    IF k > Len(list) THEN st
    ELSE FilterFrom(list, k + 1,
             FilterStep(st, list[k],
                        is_duplicate(list[k], st.processed, st.cache, masterJson)))

\* lines 261-273: the processor as __init__ leaves it
FreshProcessor ==
    /\ urlList = <<>>
    /\ loopIndex = 0
    /\ processed_urls = {}
    /\ cache = [has |-> FALSE, urls |-> {}]
    /\ successful_count = 0
    /\ failed_count = 0
    /\ skipped_count = 0
    /\ failed_urls = {}
    /\ shutdown_requested = FALSE
    /\ metadata = <<>>
    /\ comments = <<>>
    /\ fetched = <<>>
    /\ appended = <<>>
    /\ handled = 0
    /\ started = 0
    /\ startedAtSignal = -1
    /\ progressSaved = FALSE
    /\ failedFetches = {}
    /\ cleanedUp = FALSE

\* the stores a first run finds: none, or one record, of a url of the source
\* file or of another url, or one record and no closing bracket
DriverStores ==
    {Absent,
     File(JsonDump(JArr(<<Rec(<<"a">>)>>))),
     File(JsonDump(JArr(<<Rec(<<"x">>)>>))),
     File(Unclosed(JsonDump(JArr(<<Rec(<<"a">>)>>))))}

\* a first run: no progress file
FirstRun ==
    /\ masterJson \in DriverStores
    /\ urlsFile \in SeqsUpTo(InputUrls, MaxUrls) \ {<<>>}
    /\ ms_token \in BOOLEAN
    /\ run = "first"
    /\ dpc = "load"
    /\ prev = <<>>
    /\ progressFailed = {}
    /\ FreshProcessor

\* a first run without --force-redownload (lines 1011-1012)
DriverInit == FirstRun /\ force_redownload = FALSE

\* a first run with --force-redownload
ForceInit == FirstRun /\ force_redownload = TRUE

\* lines 155-180: clean_short_transcriptions(data, min_length=50)
clean_short_transcriptions(data) ==
    LET Valid(e) == IsDict(e) /\ HasKey(e, "url") /\ has_transcription_with_min_length(e)
        NoUrlEntry(e) == ~(IsDict(e) /\ HasKey(e, "url"))
    IN SelectSeq(data, Valid) \o SelectSeq(data, NoUrlEntry)

\* lines 233-251: the store is written again when entries were removed
CleanedOr(file, data, cleaned) ==
    IF Len(data) - Len(cleaned) > 0 THEN File(JsonDump(JArr(cleaned))) ELSE file

\* lines 196-251: the cleanup of a store, loaded what json.load makes of it
CleanLoaded(file, loaded) ==
    IF ~loaded.ok \/ loaded.val.t # "a" THEN file
    ELSE CleanedOr(file, loaded.val.v,
                   clean_short_transcriptions(remove_duplicates_from_data(loaded.val.v)))

\* lines 183-257: auto_clean_master_json; fixOk tells whether the repair
\* it starts on a store it cannot load succeeds
auto_clean_master_json(file, fixOk) ==
    IF ~file.exists THEN file
    ELSE IF JsonLoads(file.text).ok THEN CleanLoaded(file, JsonLoads(file.text))
    ELSE IF fixOk THEN CleanLoaded(FixedFile(file), JsonLoads(FixedFile(file).text))
    ELSE file

\* the url the loop is at
CurrentUrl == urlList[loopIndex]

\* lines 302-363: load_existing_progress; the progress file of an earlier
\* run holds no skipped_urls (save_progress, lines 367-376), so only the
\* store adds to processed_urls; a store that raises is repaired by
\* fix_json.py, if that can be run, and loaded again
LoadProgress ==
    /\ dpc = "load"
    /\ IF force_redownload
       THEN /\ masterJson' = masterJson
            /\ processed_urls' = {}
       ELSE IF LoadRaises(masterJson)
       THEN \E fixOk \in BOOLEAN, n \in 0..Len(StreamedItems(masterJson)) :
               /\ masterJson' = IF fixOk THEN FixedFile(masterJson) ELSE masterJson
               /\ processed_urls' =
                     ItemUrls(SubSeq(StreamedItems(masterJson), 1, n))
                     \cup (IF fixOk THEN LoadedUrls(masterJson') ELSE {})
       ELSE /\ masterJson' = masterJson
            /\ processed_urls' = LoadedUrls(masterJson)
    /\ dpc' = "filter"
    /\ UNCHANGED <<urlsFile, run, shutdown_requested, ms_token, urlList, loopIndex,
                   cache, successful_count, failed_count, skipped_count,
                   failed_urls, metadata, comments, driverGhost>>
    /\ UNCHANGED driverRest
    /\ UNCHANGED outsideDriver

\* main, lines 1114-1120: what filter_urls leaves, st its result
Filtered(st) ==
    /\ urlList' = st.new_urls
    /\ skipped_count' = skipped_count + st.duplicate_count
    /\ handled' = handled + st.duplicate_count
    /\ processed_urls' = st.processed
    /\ cache' = st.cache
    /\ dpc' = IF st.new_urls = <<>> THEN "exited" ELSE "loop"
    /\ loopIndex' = IF st.new_urls = <<>> THEN 0 ELSE 1

\* main, lines 1101-1120: load_urls_from_file, filter_urls, and the exit
\* when nothing is left
FilterUrls ==
    /\ dpc = "filter"
    /\ Filtered(FilterFrom(urlsFile, 1,
                    [new_urls |-> <<>>, duplicate_count |-> 0,
                     processed |-> processed_urls, cache |-> cache]))
    /\ UNCHANGED <<masterJson, urlsFile, run, shutdown_requested, ms_token,
                   successful_count, failed_count, failed_urls, metadata, comments,
                   fetched, appended, started, startedAtSignal, progressSaved, prev>>
    /\ UNCHANGED driverRest
    /\ UNCHANGED outsideDriver

\* the head of the loop without the test of lines 861-863
LoopCheckUnchecked ==
    /\ dpc = "loop"
    /\ IF loopIndex > Len(urlList)
       THEN dpc' = "finish" /\ started' = started
       ELSE dpc' = "check" /\ started' = started + 1
    /\ UNCHANGED <<masterJson, urlsFile, run, shutdown_requested, ms_token, driverState,
                   fetched, appended, handled, startedAtSignal, progressSaved, prev>>
    /\ UNCHANGED driverRest
    /\ UNCHANGED outsideDriver

\* lines 859-863: the head of the loop: the next url, unless the list is at
\* its end or shutdown was requested
LoopCheck ==
    /\ dpc = "loop"
    /\ IF loopIndex > Len(urlList) \/ shutdown_requested
       THEN dpc' = "finish" /\ started' = started
       ELSE dpc' = "check" /\ started' = started + 1
    /\ UNCHANGED <<masterJson, urlsFile, run, shutdown_requested, ms_token, driverState,
                   fetched, appended, handled, startedAtSignal, progressSaved, prev>>
    /\ UNCHANGED driverRest
    /\ UNCHANGED outsideDriver

\* lines 648-655 and 895-898: what follows the answer r of is_duplicate
DupChecked(r) ==
    /\ processed_urls' = r.processed
    /\ cache' = r.cache
    /\ IF r.dup
       THEN /\ skipped_count' = skipped_count + 1
            /\ failed_count' = failed_count + 1
            /\ failed_urls' = failed_urls \cup {CurrentUrl}
            /\ handled' = handled + 1
            /\ loopIndex' = loopIndex + 1
            /\ dpc' = "loop"
            /\ fetched' = fetched
       ELSE /\ fetched' = Append(fetched, CurrentUrl)
            /\ dpc' = "download"
            /\ UNCHANGED <<skipped_count, failed_count, failed_urls, handled, loopIndex>>

\* lines 647-651 and 895-898: the second duplicate check; for a duplicate
\* download_and_extract_comments returns None, which the loop takes for a
\* failure
DupCheck ==
    /\ dpc = "check"
    /\ DupChecked(is_duplicate(CurrentUrl, processed_urls, cache, masterJson))
    /\ UNCHANGED <<masterJson, urlsFile, run, shutdown_requested, ms_token, urlList,
                   successful_count, metadata, comments,
                   appended, started, startedAtSignal, progressSaved, prev>>
    /\ UNCHANGED driverRest
    /\ UNCHANGED outsideDriver

\* lines 655-662 and 895-898: the download fails; what download_tiktok_video
\* (scripts.collection.tiktok_scraper.download_single_video) returns is the
\* choice of the environment
FetchFail ==
    /\ dpc = "download"
    /\ failed_count' = failed_count + 1
    /\ failed_urls' = failed_urls \cup {CurrentUrl}
    /\ handled' = handled + 1
    /\ loopIndex' = loopIndex + 1
    /\ dpc' = "loop"
    /\ failedFetches' = failedFetches \cup {CurrentUrl}
    /\ UNCHANGED <<masterJson, urlsFile, run, shutdown_requested, ms_token, urlList,
                   processed_urls, cache, successful_count, skipped_count, metadata,
                   comments, fetched, appended, started, startedAtSignal,
                   progressSaved, prev, force_redownload, progressFailed, cleanedUp>>
    /\ UNCHANGED outsideDriver

\* lines 655-676: the download succeeds; its metadata carry the url the
\* extractor reports
FetchOk ==
    /\ dpc = "download"
    /\ metadata' = Rec(webpage_url(CurrentUrl))
    /\ comments' = <<>>
    /\ dpc' = IF ms_token THEN "comments" ELSE "record"
    /\ UNCHANGED <<masterJson, urlsFile, run, shutdown_requested, ms_token, urlList,
                   loopIndex, processed_urls, cache, successful_count, failed_count,
                   skipped_count, failed_urls, driverGhost>>
    /\ UNCHANGED driverRest
    /\ UNCHANGED outsideDriver

\* lines 553-580: extract_video_comments_safe gives up at once when shutdown
\* was requested
CommentsStart ==
    /\ dpc = "comments"
    /\ dpc' = IF shutdown_requested THEN "record" ELSE "iterate"
    /\ UNCHANGED <<masterJson, urlsFile, run, shutdown_requested, ms_token, driverState,
                   driverGhost>>
    /\ UNCHANGED driverRest
    /\ UNCHANGED outsideDriver

\* lines 582-610: one round of the loop over the comments
ExtractComment ==
    /\ dpc = "iterate"
    /\ IF shutdown_requested
       THEN /\ dpc' = "record"
            /\ comments' = comments
       ELSE /\ comments' = Append(comments, AllComments[Len(comments) + 1])
            /\ dpc' = IF Len(comments') >= MaxComments THEN "record" ELSE "iterate"
    /\ UNCHANGED <<masterJson, urlsFile, run, shutdown_requested, ms_token, urlList,
                   loopIndex, processed_urls, cache, successful_count, failed_count,
                   skipped_count, failed_urls, metadata, driverGhost>>
    /\ UNCHANGED driverRest
    /\ UNCHANGED outsideDriver

\* lines 680-709 and 891-905: the comment fields are set, the url is marked
\* processed and the record is appended to the store
Record ==
    /\ dpc = "record"
    /\ LET rec == WithComments(metadata, comments) IN
          /\ masterJson' = AppendedFile(masterJson, <<rec>>)
          /\ appended' = Append(appended,
                 [url |-> CurrentUrl, rec |-> rec, signalled |-> shutdown_requested])
    /\ processed_urls' = processed_urls \cup {CurrentUrl}
    /\ successful_count' = successful_count + 1
    /\ handled' = handled + 1
    /\ loopIndex' = loopIndex + 1
    /\ metadata' = <<>>
    /\ comments' = <<>>
    /\ dpc' = "loop"
    /\ UNCHANGED <<urlsFile, run, shutdown_requested, ms_token, urlList, cache,
                   failed_count, skipped_count, failed_urls,
                   fetched, started, startedAtSignal, progressSaved, prev>>
    /\ UNCHANGED driverRest
    /\ UNCHANGED outsideDriver

\* lines 945-958 and main, lines 1124-1128 and 1147-1152: the progress file
\* is written with the local list failed_urls, which holds the urls of
\* self.failed_urls (lines 896-897), the failed urls leave the source file,
\* the session is cleaned up, and a run that was not asked to shut down
\* cleans the store
Finish ==
    /\ dpc = "finish"
    /\ progressSaved' = TRUE
    /\ progressFailed' = failed_urls
    /\ cleanedUp' = TRUE
    /\ urlsFile' = LET Kept(u) == u \notin failed_urls IN SelectSeq(urlsFile, Kept)
    /\ \E fixOk \in BOOLEAN :
          /\ (shutdown_requested \/ ~masterJson.exists \/ JsonLoads(masterJson.text).ok) => fixOk
          /\ masterJson' = IF shutdown_requested THEN masterJson
                           ELSE auto_clean_master_json(masterJson, fixOk)
    /\ dpc' = "exited"
    /\ UNCHANGED <<run, shutdown_requested, ms_token, driverState,
                   fetched, appended, handled, started, startedAtSignal, prev,
                   force_redownload, failedFetches>>
    /\ UNCHANGED outsideDriver

\* lines 748-750: the signal handler; the signal comes once, in the first
\* run
Signal ==
    /\ run = "first"
    /\ dpc \in {"load", "filter", "loop", "check", "download", "comments",
                "iterate", "record", "finish"}
    /\ ~shutdown_requested
    /\ shutdown_requested' = TRUE
    /\ startedAtSignal' = started
    /\ UNCHANGED <<masterJson, urlsFile, run, dpc, ms_token, driverState,
                   fetched, appended, handled, started, progressSaved, prev>>
    /\ UNCHANGED driverRest
    /\ UNCHANGED outsideDriver

\* the program is started again after a run that wrote to the store and was
\* asked to shut down: a new processor (lines 261-273) over the files the
\* run left
Restart ==
    /\ dpc = "exited"
    /\ run = "first"
    /\ shutdown_requested
    /\ appended # <<>>
    /\ run' = "second"
    /\ dpc' = "load"
    /\ prev' = <<[list |-> urlList, appended |-> appended, started |-> started]>>
    /\ urlList' = <<>>
    /\ loopIndex' = 0
    /\ processed_urls' = {}
    /\ cache' = [has |-> FALSE, urls |-> {}]
    /\ successful_count' = 0
    /\ failed_count' = 0
    /\ skipped_count' = 0
    /\ failed_urls' = {}
    /\ shutdown_requested' = FALSE
    /\ metadata' = <<>>
    /\ comments' = <<>>
    /\ fetched' = <<>>
    /\ appended' = <<>>
    /\ handled' = 0
    /\ started' = 0
    /\ startedAtSignal' = -1
    /\ progressSaved' = FALSE
    /\ failedFetches' = {}
    /\ cleanedUp' = FALSE
    /\ UNCHANGED <<masterJson, urlsFile, ms_token, force_redownload, progressFailed>>
    /\ UNCHANGED outsideDriver

DriverNext ==
    \/ LoadProgress
    \/ FilterUrls
    \/ LoopCheck
    \/ DupCheck
    \/ FetchFail
    \/ FetchOk
    \/ CommentsStart
    \/ ExtractComment
    \/ Record
    \/ Finish
    \/ Signal

InitDriverRun == DriverInit /\ AppendParked /\ LockParked /\ DedupParked /\ FixParked /\ RewriteParked /\ MarkParked

\* one run of the driver
SpecDriver == InitDriverRun /\ [][DriverNext]_vars

\* a run of the driver, and the run that follows it
ResumeNext ==
    \/ DriverNext
    \/ Restart

InitResumeRun == DriverInit /\ AppendParked /\ LockParked /\ DedupParked /\ FixParked /\ RewriteParked /\ MarkParked

SpecResume == InitResumeRun /\ [][ResumeNext]_vars

\* the handler of main without lines 1143-1144
AppendRaisesUnsaved ==
    /\ dpc = "record"
    /\ processed_urls' = processed_urls \cup {CurrentUrl}
    /\ successful_count' = successful_count + 1
    /\ handled' = handled + 1
    /\ shutdown_requested' = TRUE
    /\ dpc' = "exited"
    /\ UNCHANGED <<masterJson, urlsFile, run, ms_token, urlList, loopIndex, cache,
                   failed_count, skipped_count, failed_urls, metadata, comments,
                   fetched, appended, started, startedAtSignal, progressSaved, prev,
                   force_redownload, progressFailed, failedFetches, cleanedUp>>
    /\ UNCHANGED outsideDriver

\* lines 700, 891-893 and 905, and main, lines 1141-1152:
\* append_batch_to_master_json raises (memory_efficient_append.py, line 104,
\* or the open of line 13) and leaves the store as it was; process_urls has
\* no handler, so the one of main raises the flag, cleans the session up,
\* calls save_progress() without the failed urls and exits
AppendRaises ==
    /\ dpc = "record"
    /\ processed_urls' = processed_urls \cup {CurrentUrl}
    /\ successful_count' = successful_count + 1
    /\ handled' = handled + 1
    /\ shutdown_requested' = TRUE
    /\ cleanedUp' = TRUE
    /\ progressSaved' = TRUE
    /\ progressFailed' = {}
    /\ dpc' = "exited"
    /\ UNCHANGED <<masterJson, urlsFile, run, ms_token, urlList, loopIndex, cache,
                   failed_count, skipped_count, failed_urls, metadata, comments,
                   fetched, appended, started, startedAtSignal, prev,
                   force_redownload, failedFetches>>
    /\ UNCHANGED outsideDriver

\* a run of the driver in which the append can raise
FaultNext ==
    \/ DriverNext
    \/ AppendRaises

InitFaultRun == DriverInit /\ AppendParked /\ LockParked /\ DedupParked /\ FixParked /\ RewriteParked /\ MarkParked

SpecFault == InitFaultRun /\ [][FaultNext]_vars

InitForceRun == ForceInit /\ AppendParked /\ LockParked /\ DedupParked /\ FixParked /\ RewriteParked /\ MarkParked

\* a run of the driver started with --force-redownload
SpecForce == InitForceRun /\ [][DriverNext]_vars

\* =====================================================================
\* The rewrites of the store in place: fix_json_file and remove_duplicates
\* called without an output file, and auto_clean_master_json
\* =====================================================================

\* longest list of records behind a store that is rewritten
MaxRewrite == 2

\* url a with a title: a better entry than the record of the url alone
RecATitle == JObj(<<Field("url", UrlA), Field("title", JStr(<<"t">>))>>)

RewriteRecords == {Rec(<<"a">>), RecATitle, RecB1, RecNoUrl}

\* the stores a rewrite finds: none, an array as json.dump wrote it, or such
\* an array without its closing bracket
RewriteStores ==
    {Absent}
    \cup {File(JsonDump(JArr(s))) : s \in SeqsUpTo(RewriteRecords, MaxRewrite)}
    \cup {File(Unclosed(JsonDump(JArr(s)))) : s \in SeqsUpTo(RewriteRecords, MaxRewrite) \ {<<>>}}

RewriteInit ==
    /\ rwOp \in {"fix_json_file", "remove_duplicates", "auto_clean_master_json"}
    /\ rwpc = "start"
    /\ rwStore \in RewriteStores
    /\ rwBackup = Absent
    /\ rwData = <<>>
    /\ rwOrigin = rwStore

\* what the steps between the backup and the end leave alone
rewriteGhost == <<rwOp, rwOrigin>>

\* fix_json.py lines 87-96: without the file nothing is done; output_file is
\* None, so the input is renamed to the backup
FjBackup ==
    /\ rwOp = "fix_json_file"
    /\ rwpc = "start"
    /\ IF rwStore.exists
       THEN /\ rwBackup' = rwStore
            /\ rwStore' = Absent
            /\ rwpc' = "load"
       ELSE /\ rwpc' = "done"
            /\ UNCHANGED <<rwStore, rwBackup>>
    /\ UNCHANGED <<rwData, rewriteGhost>>
    /\ UNCHANGED outsideRewrite

\* fix_json.py lines 100-121: the list json.load gives for the text, or the
\* objects extract_json_objects finds in it
FixedItems(text, data) ==
    IF data.ok /\ data.val.t = "a" THEN data.val.v
    ELSE extract_json_objects(text).objects

\* fix_json.py lines 100-127: the backup is read
FjLoad ==
    /\ rwOp = "fix_json_file"
    /\ rwpc = "load"
    /\ rwData' = FixedItems(rwBackup.text, JsonLoads(rwBackup.text))
    /\ rwpc' = "open"
    /\ UNCHANGED <<rwStore, rwBackup, rewriteGhost>>
    /\ UNCHANGED outsideRewrite

\* fix_json.py lines 109 and 130: open(output_file, 'w')
FjOpen ==
    /\ rwOp = "fix_json_file"
    /\ rwpc = "open"
    /\ rwStore' = File(<<>>)
    /\ rwpc' = "dump"
    /\ UNCHANGED <<rwBackup, rwData, rewriteGhost>>
    /\ UNCHANGED outsideRewrite

\* fix_json.py lines 110-112 and 131-142: json.dump, and the verification,
\* which only reads
FjDump ==
    /\ rwOp = "fix_json_file"
    /\ rwpc = "dump"
    /\ rwStore' = File(JsonDump(JArr(rwData)))
    /\ rwpc' = "done"
    /\ UNCHANGED <<rwBackup, rwData, rewriteGhost>>
    /\ UNCHANGED outsideRewrite

\* remove_duplicates.py lines 46-122: the file is loaded and unique_entries
\* computed; without a file, or a list in it, the function returns
RdLoad ==
    /\ rwOp = "remove_duplicates"
    /\ rwpc = "start"
    /\ IF rwStore.exists /\ IsJsonArray(rwStore.text)
       THEN /\ rwData' = UniqueEntriesRd(JsonLoads(rwStore.text).val.v)
            /\ rwpc' = "backup"
       ELSE /\ rwData' = rwData
            /\ rwpc' = "done"
    /\ UNCHANGED <<rwStore, rwBackup, rewriteGhost>>
    /\ UNCHANGED outsideRewrite

\* remove_duplicates.py lines 125-130: output_file is None, the input is
\* renamed to the backup
RdBackup ==
    /\ rwOp = "remove_duplicates"
    /\ rwpc = "backup"
    /\ rwBackup' = rwStore
    /\ rwStore' = Absent
    /\ rwpc' = "open"
    /\ UNCHANGED <<rwData, rewriteGhost>>
    /\ UNCHANGED outsideRewrite

\* remove_duplicates.py line 132: open(output_file, 'w')
RdOpen ==
    /\ rwOp = "remove_duplicates"
    /\ rwpc = "open"
    /\ rwStore' = File(<<>>)
    /\ rwpc' = "dump"
    /\ UNCHANGED <<rwBackup, rwData, rewriteGhost>>
    /\ UNCHANGED outsideRewrite

\* remove_duplicates.py lines 133-145: json.dump, and the verification, which
\* only reads
RdDump ==
    /\ rwOp = "remove_duplicates"
    /\ rwpc = "dump"
    /\ rwStore' = File(JsonDump(JArr(rwData)))
    /\ rwpc' = "done"
    /\ UNCHANGED <<rwBackup, rwData, rewriteGhost>>
    /\ UNCHANGED outsideRewrite

\* lines 226-253: with the list loaded, entries are removed or nothing is
\* left to do
AcCleaned(data, cleaned) ==
    IF Len(data) - Len(cleaned) > 0
    THEN rwData' = cleaned /\ rwpc' = "backup"
    ELSE rwData' = rwData /\ rwpc' = "done"

\* lines 187-237: the store is loaded, in the first attempt or in the second
\* one that follows a repair, and cleaned
AcLoad ==
    /\ rwOp = "auto_clean_master_json"
    /\ rwpc \in {"start", "reload"}
    /\ IF ~rwStore.exists
       THEN rwData' = rwData /\ rwpc' = "done"
       ELSE IF ~JsonLoads(rwStore.text).ok
       THEN rwData' = rwData /\ rwpc' = IF rwpc = "start" THEN "repair" ELSE "done"
       ELSE IF ~IsJsonArray(rwStore.text)
       THEN rwData' = rwData /\ rwpc' = "done"
       ELSE AcCleaned(JsonLoads(rwStore.text).val.v,
                      clean_short_transcriptions(
                          remove_duplicates_from_data(JsonLoads(rwStore.text).val.v)))
    /\ UNCHANGED <<rwStore, rwBackup, rewriteGhost>>
    /\ UNCHANGED outsideRewrite

\* lines 203-224: fix_json.py is run on the store by another process: a
\* rewrite of its own (the steps of fix_json_file above), after which the
\* store is what the repair wrote; or the repair cannot be run and the
\* cleanup is given up
AcRepair ==
    /\ rwOp = "auto_clean_master_json"
    /\ rwpc = "repair"
    /\ \E fixOk \in BOOLEAN :
          IF fixOk
          THEN /\ rwStore' = FixedFile(rwStore)
               /\ rwOrigin' = FixedFile(rwStore)
               /\ rwpc' = "reload"
          ELSE /\ rwpc' = "done"
               /\ UNCHANGED <<rwStore, rwOrigin>>
    /\ UNCHANGED <<rwOp, rwBackup, rwData>>
    /\ UNCHANGED outsideRewrite

\* the rewrite without lines 240-243
AcBackupSkipped ==
    /\ rwOp = "auto_clean_master_json"
    /\ rwpc = "backup"
    /\ rwpc' = "open"
    /\ UNCHANGED <<rwStore, rwBackup, rwData, rewriteGhost>>
    /\ UNCHANGED outsideRewrite

\* lines 239-243: shutil.copy2(master_file_path, backup_file)
AcBackup ==
    /\ rwOp = "auto_clean_master_json"
    /\ rwpc = "backup"
    /\ rwBackup' = rwStore
    /\ rwpc' = "open"
    /\ UNCHANGED <<rwStore, rwData, rewriteGhost>>
    /\ UNCHANGED outsideRewrite

\* line 246: open(master_file_path, 'w')
AcOpen ==
    /\ rwOp = "auto_clean_master_json"
    /\ rwpc = "open"
    /\ rwStore' = File(<<>>)
    /\ rwpc' = "dump"
    /\ UNCHANGED <<rwBackup, rwData, rewriteGhost>>
    /\ UNCHANGED outsideRewrite

\* line 247: json.dump(data, f, indent=2)
AcDump ==
    /\ rwOp = "auto_clean_master_json"
    /\ rwpc = "dump"
    /\ rwStore' = File(JsonDump(JArr(rwData)))
    /\ rwpc' = "done"
    /\ UNCHANGED <<rwBackup, rwData, rewriteGhost>>
    /\ UNCHANGED outsideRewrite

RewriteNext ==
    \/ FjBackup
    \/ FjLoad
    \/ FjOpen
    \/ FjDump
    \/ RdLoad
    \/ RdBackup
    \/ RdOpen
    \/ RdDump
    \/ AcLoad
    \/ AcRepair
    \/ AcBackup
    \/ AcOpen
    \/ AcDump

InitRewriteRun ==
    RewriteInit /\ AppendParked /\ LockParked /\ DedupParked /\ FixParked /\ DriverParked
        /\ MarkParked

\* one rewrite of the store in place
SpecRewrite == InitRewriteRun /\ [][RewriteNext]_vars

\* =====================================================================
\* The drivers of tiktok_scraper.py, process_urls_sequential and
\* process_urls_multi, and the '-' marker they put in the url file
\* =====================================================================

\* the urls of the url file, by their place in it; process_urls_multi
\* submits one job per url (lines 896-904), each taken by a worker process
\* of its own
MarkUrls == 1..NumWorkers
\* the processes: 0 is the driver, the process of worker k handles url k
MarkProcs == 0..NumWorkers

MarkInit ==
    /\ mkMode \in {"sequential", "multi"}
    /\ mkpc = "loop"
    /\ mkIndex = IF mkMode = "sequential" THEN 1 ELSE 0
    /\ mkFlag = [p \in MarkProcs |-> FALSE]
    /\ mkWpc = [k \in MarkUrls |-> IF mkMode = "multi" THEN "submitted" ELSE "off"]
    /\ mkResult = [k \in MarkUrls |-> "none"]
    /\ mkMarked = {}
    /\ mkAttempted = {}

\* lines 57-65: the handler runs in the process that got the signal (the
\* workers are forked with the handlers of lines 68-70 installed, and a
\* SIGINT of the terminal goes to every process of the group, to each in its
\* own time)
signal_handler(p) ==
    /\ mkMode \in {"sequential", "multi"}
    /\ mkpc # "end"
    /\ p = 0 \/ mkMode = "multi"
    /\ ~mkFlag[p]
    /\ mkFlag' = [mkFlag EXCEPT ![p] = TRUE]
    /\ UNCHANGED <<mkMode, mkpc, mkIndex, mkWpc, mkResult, mkMarked, mkAttempted>>
    /\ UNCHANGED outsideMark

\* lines 1006-1011: the head of the sequential loop
SeqLoop ==
    /\ mkMode = "sequential"
    /\ mkpc = "loop"
    /\ mkpc' = IF mkIndex > NumWorkers \/ mkFlag[0] THEN "end" ELSE "call"
    /\ UNCHANGED <<mkMode, mkIndex, mkFlag, mkWpc, mkResult, mkMarked, mkAttempted>>
    /\ UNCHANGED outsideMark

\* lines 1015 and 609-615: download_single_video is called and tests the
\* flag before it does anything
SeqEnter ==
    /\ mkMode = "sequential"
    /\ mkpc = "call"
    /\ IF mkFlag[0]
       THEN /\ mkResult' = [mkResult EXCEPT ![mkIndex] = "shutdown"]
            /\ mkpc' = "mark"
            /\ UNCHANGED mkAttempted
       ELSE /\ mkAttempted' = mkAttempted \cup {mkIndex}
            /\ mkpc' = "download"
            /\ UNCHANGED mkResult
    /\ UNCHANGED <<mkMode, mkIndex, mkFlag, mkWpc, mkMarked>>
    /\ UNCHANGED outsideMark

\* lines 617-705: the download, which succeeds or fails
SeqDownload ==
    /\ mkMode = "sequential"
    /\ mkpc = "download"
    /\ \E r \in {"success", "failed"} : mkResult' = [mkResult EXCEPT ![mkIndex] = r]
    /\ mkpc' = "mark"
    /\ UNCHANGED <<mkMode, mkIndex, mkFlag, mkWpc, mkMarked, mkAttempted>>
    /\ UNCHANGED outsideMark

\* lines 1016-1043: the url is marked processed after a success (lines
\* 1023-1025) and after a failure (lines 1031-1033)
SeqMark ==
    /\ mkMode = "sequential"
    /\ mkpc = "mark"
    /\ mkMarked' = mkMarked \cup {mkIndex}
    /\ mkIndex' = mkIndex + 1
    /\ mkpc' = "loop"
    /\ UNCHANGED <<mkMode, mkFlag, mkWpc, mkResult, mkAttempted>>
    /\ UNCHANGED outsideMark

\* lines 840 and 609-615: the worker calls download_single_video, which
\* tests the flag of the worker's process
WorkerEnter(k) ==
    /\ mkMode = "multi"
    /\ mkWpc[k] = "submitted"
    /\ IF mkFlag[k]
       THEN /\ mkResult' = [mkResult EXCEPT ![k] = "shutdown"]
            /\ mkWpc' = [mkWpc EXCEPT ![k] = "returned"]
            /\ UNCHANGED mkAttempted
       ELSE /\ mkAttempted' = mkAttempted \cup {k}
            /\ mkWpc' = [mkWpc EXCEPT ![k] = "download"]
            /\ UNCHANGED mkResult
    /\ UNCHANGED <<mkMode, mkpc, mkIndex, mkFlag, mkMarked>>
    /\ UNCHANGED outsideMark

\* lines 617-705 and 842-845: the download in the worker, and its return
WorkerDownload(k) ==
    /\ mkMode = "multi"
    /\ mkWpc[k] = "download"
    /\ \E r \in {"success", "failed"} : mkResult' = [mkResult EXCEPT ![k] = r]
    /\ mkWpc' = [mkWpc EXCEPT ![k] = "returned"]
    /\ UNCHANGED <<mkMode, mkpc, mkIndex, mkFlag, mkMarked, mkAttempted>>
    /\ UNCHANGED outsideMark

\* lines 907-913: as_completed hands over a future that is done; the driver
\* tests its own flag and leaves the loop or takes the future's url
PoolNext(k) ==
    /\ mkMode = "multi"
    /\ mkpc = "loop"
    /\ mkWpc[k] = "returned"
    /\ IF mkFlag[0]
       THEN mkpc' = "end" /\ UNCHANGED <<mkIndex, mkWpc>>
       ELSE /\ mkpc' = "mark"
            /\ mkIndex' = k
            /\ mkWpc' = [mkWpc EXCEPT ![k] = "taken"]
    /\ UNCHANGED <<mkMode, mkFlag, mkResult, mkMarked, mkAttempted>>
    /\ UNCHANGED outsideMark

\* lines 915-931: the url is marked processed after a success (lines
\* 920-923) and after a failure (lines 929-931)
PoolMark ==
    /\ mkMode = "multi"
    /\ mkpc = "mark"
    /\ mkMarked' = mkMarked \cup {mkIndex}
    /\ mkpc' = "loop"
    /\ UNCHANGED <<mkMode, mkIndex, mkFlag, mkWpc, mkResult, mkAttempted>>
    /\ UNCHANGED outsideMark

\* line 907: as_completed has no future left
PoolEnd ==
    /\ mkMode = "multi"
    /\ mkpc = "loop"
    /\ \A k \in MarkUrls : mkWpc[k] = "taken"
    /\ mkpc' = "end"
    /\ UNCHANGED <<mkMode, mkIndex, mkFlag, mkWpc, mkResult, mkMarked, mkAttempted>>
    /\ UNCHANGED outsideMark

MarkNext ==
    \/ \E p \in MarkProcs : signal_handler(p)
    \/ SeqLoop
    \/ SeqEnter
    \/ SeqDownload
    \/ SeqMark
    \/ \E k \in MarkUrls : WorkerEnter(k)
    \/ \E k \in MarkUrls : WorkerDownload(k)
    \/ \E k \in MarkUrls : PoolNext(k)
    \/ PoolMark
    \/ PoolEnd

InitMarkRun ==
    MarkInit /\ AppendParked /\ LockParked /\ DedupParked /\ FixParked /\ DriverParked
        /\ RewriteParked

\* a run of one of the two drivers over the url file
SpecMark == InitMarkRun /\ [][MarkNext]_vars

\* ---------------------------------------------------------------------
\* Claims about the streaming appender (checked under SpecAppend)
\* ---------------------------------------------------------------------

\* the run started from an absent store or from a valid JSON array
StartedValid == ~origin.exists \/ IsJsonArray(origin.text)

\* C1: starting from an absent store or a valid JSON array, after any
\* sequence of completed appends of non-empty batches the store file is a
\* syntactically valid JSON array.
C1_StoreValidAtRest ==
    (pc = "idle" /\ StartedValid /\ store.exists) => IsJsonArray(store.text)

\* C2: a completed append of batch B to an existing valid store holding the
\* records E leaves the store holding exactly E followed by B.
C2_AppendIsConcatenation ==
    (pc = "idle" /\ calls > 0 /\ store0.exists /\ IsJsonArray(store0.text))
        => LET after == JsonLoads(store.text) IN
           /\ after.ok
           /\ after.val = JArr(JsonLoads(store0.text).val.v \o batch)

\* C3: if the process is killed while the appender is writing its temporary
\* file (the store already exists), the store file is what it was before the
\* call.
C3_KillLeavesStore ==
    (pc = "killed" /\ haltedAt \in TryPcs) => store = store0

\* a process killed in the streaming loop after it wrote part of the
\* existing items to the temporary file
C3_Witness ==
    /\ pc = "killed"
    /\ haltedAt = "stream"
    /\ store0.exists
    /\ temp.exists
    /\ Len(temp.text) > 1

\* C4: at every intermediate step of an append, the create branch included, a
\* reader of the store path sees the pre-call state or a complete, closed
\* JSON array.
C4_NoPartialStoreVisible ==
    pc \in RunningPcs => (store = store0 \/ (store.exists /\ IsJsonArray(store.text)))

CriticalPcs == {"load", "open", "dump", "unlock", "unlink"}

\* C6: at most one worker is inside the load-append-rewrite section of
\* append_to_master_json at any time.
C6_MutualExclusion ==
    Cardinality({p \in Workers : wpc[p] \in CriticalPcs}) <= 1

\* C7: once all workers have finished, the store holds the record of every
\* worker that appended one.
C7_NoLostAppend ==
    (\A p \in Workers : wpc[p] = "done")
        => \A p \in Workers :
               wrote[p] => /\ JsonLoads(master.text).ok
                           /\ \E i \in 1..Len(LoadedData(master)) :
                                  LoadedData(master)[i] = WorkerRec(p)

\* the file holds text that is not valid JSON
HoldsInvalidJson(file) ==
    file.exists /\ Strip(file.text) # <<>> /\ ~JsonLoads(file.text).ok

\* C15: a worker whose load found a store that is not valid JSON does not
\* leave a store that holds only its own record: the existing content is
\* repaired or left in place.
C15_InvalidStoreNotDiscarded ==
    \A p \in Workers :
        (wpc[p] = "unlock" /\ HoldsInvalidJson(wseen[p]))
            => master.text # JsonDump(JArr(<<WorkerRec(p)>>))

\* ---------------------------------------------------------------------
\* Claims about the deduplicators
\* ---------------------------------------------------------------------

\* a deduplicator has run
DedupDone == dstage \in {"remove_duplicates", "remove_duplicates_from_data"}

\* the record is keyed: it has a non-empty url
IsKeyed(e) == HasKey(e, "url") /\ Get(e, "url") # JStr(<<>>)

\* the completeness score of the deduplicator that ran
ScoreAt(e) ==
    IF dstage = "remove_duplicates"
    THEN get_data_completeness_score(e)
    ELSE get_data_completeness_score_robust(e)

\* the positions of list that hold keyed records of url u
GroupOf(list, u) == {j \in 1..Len(list) : IsKeyed(list[j]) /\ Get(list[j], "url") = u}

\* the first position of the group whose score is the group's maximum
FirstBest(group) ==
    CHOOSE j \in group :
        \A k \in group : /\ ScoreAt(dinput[k]) <= ScoreAt(dinput[j])
                         /\ k < j => ScoreAt(dinput[k]) < ScoreAt(dinput[j])

\* C8: the output of a deduplicator holds exactly one record for each url
\* of the keyed input records and no keyed record of another url; the
\* record kept for a url is, whole, the first record in input order among
\* those of maximum completeness score in the url's group.
C8_OnePerUrlFirstBest ==
    DedupDone =>
        /\ \A i \in 1..Len(dinput) :
               IsKeyed(dinput[i]) =>
                   LET u == Get(dinput[i], "url")
                       kept == GroupOf(doutput, u)
                   IN /\ Cardinality(kept) = 1
                      /\ \A k \in kept : doutput[k] = dinput[FirstBest(GroupOf(dinput, u))]
        /\ \A k \in 1..Len(doutput) :
               IsKeyed(doutput[k]) => GroupOf(dinput, Get(doutput[k], "url")) # {}

\* the example of C8: url a with scores 3 and 7, url b with score 1
C8_Witness ==
    /\ dstage = "remove_duplicates"
    /\ dinput = <<RecA3, RecA7, RecB1>>
    /\ doutput = <<RecA7, RecB1>>

\* the number of times e occurs in list
Count(list, e) == Cardinality({i \in 1..Len(list) : list[i] = e})

\* C9: every unkeyed input record (no url field, or an empty url) is in
\* the output of a deduplicator unchanged, as often as it is in the input.
C9_UnkeyedPassThrough ==
    DedupDone =>
        \A e \in DedupRecords :
            ~IsKeyed(e) => Count(doutput, e) = Count(dinput, e)

\* ------------------------------------------- extract_json_objects by itself
\* a record with an opening brace in a string
RecOpenBrace == JObj(<<Field("url", JStr(<<"{">>))>>)

ExtractRecords == FixRecords \cup {RecOpenBrace, RecB1, RecNoUrl, RecEmpty1}

\* the content is the whole array of a list of records as json.dump
\* (indent=2) writes it
ExtractInit ==
    /\ fixStyle = "indent"
    /\ fixList \in SeqsUpTo(ExtractRecords, MaxFix)
    /\ fixCut = Len(StyleDump(fixStyle, fixList))
    /\ fixTail = <<>>
    /\ fixInput = File(StyleDump(fixStyle, fixList))
    /\ fixBackup = Absent
    /\ fixOutput = Absent
    /\ objects = <<>>
    /\ warnings = 0
    /\ fixpc = "content"

\* lines 35-82: extract_json_objects is called on the content
ExtractCall ==
    /\ fixpc = "content"
    /\ objects' = extract_json_objects(fixInput.text).objects
    /\ warnings' = extract_json_objects(fixInput.text).warnings
    /\ fixpc' = "extracted"
    /\ UNCHANGED <<fixInput, fixBackup, fixOutput, fixGhost>>
    /\ UNCHANGED outsideFix

ExtractNext == ExtractCall

InitExtractRun ==
    ExtractInit /\ AppendParked /\ LockParked /\ DedupParked /\ DriverParked
        /\ RewriteParked /\ MarkParked

\* extract_json_objects applied to the dump of a list of records
SpecExtract == InitExtractRun /\ [][ExtractNext]_vars

\* ---------------------------------------------------------------------
\* Claims about the repairer
\* ---------------------------------------------------------------------

\* the store text is N whole indented objects followed by one truncated
\* object and nothing else
FixTruncated ==
    /\ fixStyle = "indent"
    /\ CutInLast(fixList, fixCut)
    /\ fixTail = <<>>

\* C10: from a store text of N valid objects followed by one truncated
\* object the repairer recovers exactly the N objects, in order, and
\* reports one discarded fragment.
C10_RepairRecoversAndReports ==
    (fixpc = "repaired" /\ FixTruncated) =>
        /\ objects = SubSeq(fixList, 1, Len(fixList) - 1)
        /\ warnings = 1

\* fix_json_file went through the repair and returned
FixReturned == fixpc \in {"repaired", "failed"}

\* the store text handed to the repairer
FixOriginal == SubSeq(StyleDump(fixStyle, fixList), 1, fixCut) \o TailText(fixTail)

\* C11: from an array that lacks only its closing bracket the repairer
\* recovers all the objects in order, also when each object is on one line
\* and the first shares its line with the opening bracket.
C11_MissingBracketRecoversAll ==
    (FixReturned /\ fixList # <<>> /\ fixTail = <<>>
        /\ fixCut = Len(StyleDump(fixStyle, fixList)) - 1)
    => objects = fixList

\* C12: a truncated fragment in the store text is dropped and every whole
\* object that starts behind it is recovered.
C12_ResumesBehindFragment ==
    (FixReturned /\ fixTail # <<>>) =>
        /\ Len(objects) >= Len(fixTail)
        /\ SubSeq(objects, Len(objects) - Len(fixTail) + 1, Len(objects)) = fixTail

\* what fix_json_file is to leave at the output path for the store text
FixResult ==
    LET data == JsonLoads(FixOriginal) IN
    IF data.ok /\ data.val.t = "a"
    THEN JsonDump(data.val)
    ELSE JsonDump(JArr(extract_json_objects(FixOriginal).objects))

\* C13: during an in-place repair the store path exists at every step and
\* holds the original content or the complete verified result.
C13_InPlaceNeverPartial ==
    (fixpc # "off" /\ (fixpc = "start" \/ fixBackup.exists)) =>
        /\ fixInput.exists
        /\ \/ fixInput.text = FixOriginal
           \/ /\ fixInput.text = FixResult
              /\ fixpc \in {"repaired", "valid"}

\* the store text holds at least one whole record
FixNonTrivial ==
    /\ fixList # <<>>
    /\ fixCut >= (IF fixStyle = "lines"
                  THEN 1 + Len(OneLine(fixList[1]))
                  ELSE CloseAt(<<fixList[1]>>))

\* C14: when the in-place repair of a store text that holds records
\* recovers none, fix_json_file reports failure and the store path does not
\* hold an empty array.
C14_ZeroRecoveredIsFailure ==
    (FixReturned /\ fixBackup.exists /\ FixNonTrivial /\ objects = <<>>) =>
        /\ fixpc = "failed"
        /\ fixInput.text # <<"[", "]">>

\* ---------------------------------------------------------------------
\* Claims about the driver
\* ---------------------------------------------------------------------

\* the urls of the records of a store that is a JSON array
RecordUrls(file) ==
    IF file.exists /\ IsJsonArray(file.text)
    THEN LET items == JsonLoads(file.text).val.v IN
         UNION {{items[k].v[j][2].v :
                    j \in {m \in 1..Len(items[k].v) : items[k].v[m][1] = UrlKey}} :
                k \in {m \in 1..Len(items) : items[m].t = "o"}}
    ELSE {}

PastLoad == dpc \in {"filter", "loop", "check", "download", "comments", "iterate",
                     "record", "finish", "exited"}
PastFilter == PastLoad /\ dpc # "filter"

\* C16: in a fresh run without a progress file, once the store is loaded
\* is_duplicate(u) is true for every url u of a record of the store on disk,
\* filter_urls has dropped u from the list, and u is not handed to the
\* downloader
C16_StoreUrlsAreDuplicates ==
    (PastLoad /\ appended = <<>>) =>
        \A u \in RecordUrls(masterJson) :
            /\ is_duplicate(u, processed_urls, cache, masterJson).dup
            /\ PastFilter => \A k \in 1..Len(urlList) : urlList[k] # u
            /\ PastFilter => \A k \in 1..Len(fetched) : fetched[k] # u

\* a url of the source file is in the store, and the filter has left other
\* urls to fetch
C16_Witness ==
    /\ dpc = "download"
    /\ appended = <<>>
    /\ \E k \in 1..Len(urlsFile) : urlsFile[k] \in RecordUrls(masterJson)
    /\ Len(urlList) < Len(urlsFile)


\* the run before this one wrote items 1 and 2 of the source file, both
\* stored under the url they were asked by, and was asked to shut down
\* before item 3, another url, was started
WroteTwoThenShutDown ==
    /\ run = "second"
    /\ prev # <<>>
    /\ Len(urlsFile) >= 3
    /\ prev[1].list = urlsFile
    /\ prev[1].started = 2
    /\ Len(prev[1].appended) = 2
    /\ \A k \in 1..2 : /\ prev[1].appended[k].url = urlsFile[k]
                       /\ webpage_url(urlsFile[k]) = urlsFile[k]
                       /\ urlsFile[3] # urlsFile[k]

Fetched(u) == \E k \in 1..Len(fetched) : fetched[k] = u

\* C17: when a run wrote items 1 and 2 and was asked to shut down before
\* item 3 started, the next run over the same list fetches neither item 1
\* nor item 2 again, and fetches item 3
C17_ResumeSkipsWritten ==
    (WroteTwoThenShutDown /\ dpc = "exited") =>
        /\ ~Fetched(urlsFile[1])
        /\ ~Fetched(urlsFile[2])
        /\ Fetched(urlsFile[3])

InFlight == dpc \in {"check", "download", "comments", "iterate", "record"}

\* the url is among those appended when the step is done
WrittenNext(u) == \E k \in 1..Len(appended') : appended'[k].url = u

\* what a step of a run does once shutdown is requested
ShutdownStep ==
    /\ started' = started
    /\ fetched' # fetched => (dpc = "check" /\ fetched' = Append(fetched, CurrentUrl))
    /\ InFlight => (dpc' = "loop" \/ (InFlight' /\ loopIndex' = loopIndex))
    /\ dpc = "record" => (WrittenNext(CurrentUrl) /\ masterJson' # masterJson)
    /\ dpc = "loop" => dpc' = "finish"
    /\ dpc = "finish" => (dpc' = "exited" /\ progressSaved')
    /\ dpc' = "exited" =>
           \A k \in 1..Len(fetched) : WrittenNext(fetched[k]) \/ fetched[k] \in failed_urls'

\* C18: once the shutdown flag is raised in the loop of process_urls no item
\* is started any more: the item in flight goes on to its end and, when its
\* download succeeded, is appended to the store; no other url is handed to
\* the downloader; the head of the loop leaves the loop, the progress file
\* is written and the run ends
C18_ShutdownStopsTheRun ==
    [][(shutdown_requested /\ loopIndex >= 1) => ShutdownStep]_vars

\* the flag was raised while an item was in flight, the item was written
\* and the run has ended with urls left in its list
C18_Witness ==
    /\ dpc = "exited"
    /\ shutdown_requested
    /\ startedAtSignal = 1
    /\ started = 1
    /\ Len(appended) = 1
    /\ appended[1].signalled
    /\ Len(urlList) > 1
    /\ progressSaved

\* the record of a url when no shutdown is requested
UndisturbedRecord(u) ==
    WithComments(Rec(webpage_url(u)), IF ms_token THEN AllComments ELSE <<>>)

\* C19: a shutdown request that arrives while an item is in flight does not
\* change the record appended for it: comment list and comments_extracted
\* are what they are without the request
C19_RecordUnchangedByShutdown ==
    \A k \in 1..Len(appended) : appended[k].rec = UndisturbedRecord(appended[k].url)

\* C20: every url handled has exactly one outcome: the three counters add
\* up to the number of urls handled so far, and a url found to be processed
\* already is counted as skipped only, neither as failed nor put on the
\* failed list
C20_OneOutcomePerUrl ==
    [][/\ successful_count' + failed_count' + skipped_count' = handled'
       /\ skipped_count' > skipped_count =>
              (failed_count' = failed_count /\ failed_urls' = failed_urls)]_vars

\* process_urls was entered (main, line 1125)
EnteredLoop == PastFilter /\ urlList # <<>>

\* C21: when a run that entered process_urls has ended, the failed_urls
\* array of the progress file holds every url whose download failed in the
\* run
C21_ProgressHoldsFailedUrls ==
    (dpc = "exited" /\ EnteredLoop) =>
        /\ progressSaved
        /\ failedFetches \subseteq progressFailed

\* C22: a url whose download failed is in processed_urls afterwards and is
\* not handed to the downloader a second time in the run
C22_FailedUrlIsProcessed ==
    \A u \in failedFetches :
        /\ u \in processed_urls
        /\ Cardinality({k \in 1..Len(fetched) : fetched[k] = u}) <= 1

\* C23: a run that entered process_urls and has ended, at the end of its
\* list, by an exception or after a shutdown request, has written the
\* progress file and called cleanup_api_session
C23_EndSavesAndCleansUp ==
    (dpc = "exited" /\ EnteredLoop) => (progressSaved /\ cleanedUp)

\* the run ended by the exception of an append, after an item of the list
\* was written
C23_Witness ==
    /\ dpc = "exited"
    /\ EnteredLoop
    /\ loopIndex <= Len(urlList)
    /\ startedAtSignal = -1
    /\ shutdown_requested
    /\ appended # <<>>
    /\ progressSaved
    /\ cleanedUp

\* the records that can be read from the store: the items of the array, and
\* of a store that does not parse the whole items that stand before the
\* place where the parser stops
StoreItems(file) ==
    IF ~file.exists THEN <<>>
    ELSE IF IsJsonArray(file.text) THEN JsonLoads(file.text).val.v
    ELSE StreamedItems(file)

\* no two of the items carry the same url
OnePerUrl(items) ==
    \A j, k \in 1..Len(items) :
        (j < k /\ IsDict(items[j]) /\ HasKey(items[j], "url")
               /\ IsDict(items[k]) /\ HasKey(items[k], "url"))
            => Get(items[j], "url") # Get(items[k], "url")

\* C24: when a run has gone through its whole list without a shutdown
\* request, no two records of the store carry the same url
C24_StoreHasOneRecordPerUrl ==
    (dpc = "exited" /\ EnteredLoop /\ ~shutdown_requested) =>
        OnePerUrl(StoreItems(masterJson))

\* C27: with --force-redownload filter_urls returns the whole list of the
\* source file, nothing is counted as skipped before the loop starts, and
\* the store's urls among them are left in the list to be fetched
C27_ForceKeepsEveryUrl ==
    (force_redownload /\ PastFilter /\ started = 0) =>
        /\ urlList = urlsFile
        /\ skipped_count = 0

\* ---------------------------------------------------------------------
\* Appending twice and deduplicating (checked under SpecAppend)
\* ---------------------------------------------------------------------

\* the records remove_duplicates_from_data leaves of the store; the
\* deduplicators take the list json.load returns (remove_duplicates.py
\* lines 53-63, robust_master_downloader.py lines 195-200), so a store that
\* does not load as a list has none
Authoritative(file) ==
    IF file.exists /\ IsJsonArray(file.text)
    THEN [ok |-> TRUE,
          records |-> LET kept == remove_duplicates_from_data(JsonLoads(file.text).val.v)
                      IN {kept[k] : k \in 1..Len(kept)}]
    ELSE [ok |-> FALSE, records |-> {}]

\* C25: when a batch was appended and then appended once more, the store
\* deduplicates to the same set of records as the store after the first of
\* the two appends
C25_AppendTwiceDedupOnce ==
    (pc = "idle" /\ calls = 2 /\ StartedValid /\ store0 = AppendedFile(origin, batch)) =>
        /\ Authoritative(store).ok
        /\ Authoritative(store).records = Authoritative(store0).records

\* ---------------------------------------------------------------------
\* Claims about the rewrites in place (checked under SpecRewrite)
\* ---------------------------------------------------------------------

\* C26: whenever, during a rewrite in place, the store's path no longer
\* holds the file the rewrite found, the backup file exists and holds the
\* bytes of that file: the backup is there before the store is written
C26_BackupBeforeRewrite ==
    (rwOp # "off" /\ rwStore # rwOrigin) =>
        /\ rwBackup.exists
        /\ rwBackup.text = rwOrigin.text

\* auto_clean_master_json has removed some of the entries of a store and
\* kept others
C26_Witness ==
    /\ rwOp = "auto_clean_master_json"
    /\ rwpc = "done"
    /\ rwData # <<>>
    /\ rwStore = File(JsonDump(JArr(rwData)))
    /\ rwStore # rwOrigin
    /\ rwBackup = rwOrigin

\* ---------------------------------------------------------------------
\* Claims about the drivers of tiktok_scraper.py (checked under SpecMark)
\* ---------------------------------------------------------------------

\* C28: a url carries the '-' marker only when its download was attempted:
\* download_single_video got past its flag test for it
C28_MarkedOnlyAfterAttempt == mkMarked \subseteq mkAttempted

\* ---------------------------------------------------------------------
\* Claims about the lock file when a worker is killed (checked under
\* SpecCrash)
\* ---------------------------------------------------------------------

\* C29: a worker that waits for the lock file gets it and finishes its
\* append (unless it is the one that is killed), also when another worker
\* was killed while it held the lock
C29_WaiterGetsTheLock ==
    \A p \in Workers : (wpc[p] = "wait") ~> (wpc[p] \in {"done", "dead"})

\* ---------------------------------------------------------------------
\* Claims about extract_json_objects (checked under SpecExtract)
\* ---------------------------------------------------------------------

\* C30: extract_json_objects applied to the indented dump of a list of
\* records returns the records of the list, in order, also when their
\* strings hold braces
C30_ExtractRoundTrip == (fixpc = "extracted") => objects = fixList

====
